---- MODULE Spec2Model ----
(***************************************************************************)
(* Model of kitty/utils.py: single-instance coordination over Unix domain  *)
(* sockets (SingleInstance.__call__, single_instance_unix,                 *)
(* unix_socket_directories, unix_socket_paths, remove_socket_file),        *)
(* shell-environment discovery (read_shell_environment, resolved_shell)    *)
(* and sanitize_for_bracketed_paste.                                       *)
(***************************************************************************)
EXTENDS Integers, Sequences, FiniteSets, TLC

(***************************************************************************)
(* Bounds                                                                  *)
(***************************************************************************)
\* number of processes that call single_instance with one (app, euid, group)
NumProcs == 2

Procs == 1..NumProcs

\* Python's None: no process, no directory, no dict
None == 0

\* number of calls of single_instance one process makes
MaxCalls == 2

(***************************************************************************)
(* State: single-instance coordination                                     *)
(***************************************************************************)
VARIABLES
    is_macos,           \* platform: constants.is_macos
    abstract_supported, \* platform: does bind('\0' + name) work (else ENOENT)
    faults,             \* environment: system calls that may still fail so
    abstract_addr,      \* kernel: socket bound to '\0' + name
    lockfile,           \* per directory: the <name>.lock file on disk
    lock_owner,         \* per directory: process holding the lockf() lock
    socket_file,        \* per directory: socket whose bind made <name>.sock
    pc,                 \* per process: position in single_instance / exit
    ncalls,             \* per process: calls of single_instance made so far
    sock,               \* per socket: its state
    probes,             \* per process: os.access answers in the current call
    loc,                \* per process: directory yielded by unix_socket_paths
    ret,                \* per process: outcome of the single_instance call
    branch,             \* per process: which branch of the code it took
    errno,              \* per process: the OSError the current call met last
    retained,           \* per process: the socket single_instance.socket holds
    atexit,             \* per process: registered remove_socket_file calls
    peer,               \* per socket: the socket it is connected to
    earlier             \* per process: outcome and retained socket of each
                        \* call that returned before the current one

si_vars == <<is_macos, abstract_supported, faults, abstract_addr, lockfile,
             lock_owner, socket_file, pc, ncalls, sock, probes, loc, ret,
             branch, errno, retained, atexit, peer, earlier>>

\* state of read_shell_environment, per process and per calling thread
VARIABLES
    read_shell_environment_ans, \* the function attribute 'ans': a dict or None
    heap,          \* the dicts allocated so far, by identity
    call_order,    \* the threads in the order of their calls
    launched,      \* threads whose Popen started a shell
    epc,           \* per thread: position in read_shell_environment
    ans,           \* per thread: the local ans (identity of a dict)
    result,        \* per thread: identity of the dict the call returned
    master,        \* per thread: state of the pty master descriptor
    slave,         \* per thread: state of the pty slave descriptor
    popen,         \* per thread: how Popen ended
    child,         \* per thread: state of the shell it launched
    status,        \* per thread: exit status of its child
    returncode,    \* per thread: p.returncode
    pty,           \* per thread: bytes written by the child, not yet read
    raw,           \* per thread: the local raw
    written,       \* per thread: the bytes its child has written, in order
    polls,         \* per thread: iterations of the poll loop so far
    after,         \* per thread: branch taken at lines 892-910
    killed,        \* per thread: p.kill() was called
    log            \* per thread: diagnostics passed to log_error

env_vars == <<read_shell_environment_ans, heap, call_order, launched, epc, ans,
              result, master, slave, popen, child, status, returncode, pty,
              raw, written, polls, after, killed, log>>

\* state of the checks of the pure functions: arguments and result
VARIABLES
    fn_pc,         \* "idle", "called" or "returned"
    fn_args,       \* the arguments the function is applied to
    fn_result      \* what it returned, None before the call

fn_vars == <<fn_pc, fn_args, fn_result>>

vars == <<si_vars, env_vars, fn_vars>>

\* the directories unix_socket_directories can name
user_cache_dir == 1
LibraryCaches == 2
tempdir == 3
home == 4

Dirs == {user_cache_dir, LibraryCaches, tempdir, home}

\* one list for every platform, the cache directories put first on macOS
candidates_one_list ==
    IF is_macos THEN <<user_cache_dir, LibraryCaches, tempdir, home>>
    ELSE <<tempdir, home>>

\* lines 393-396: candidates = [tempfile.gettempdir(), home], replaced on
\* macOS by [user_cache_dir(), '/Library/Caches']
candidates ==
    IF is_macos THEN <<user_cache_dir, LibraryCaches>> ELSE <<tempdir, home>>

\* the candidates a process finds accessible, in candidate order
unix_socket_directories(accessible) ==
    SelectSeq(candidates, LAMBDA d : d \in accessible)

\* the directory of the first path the generator unix_socket_paths yields,
\* None when it yields nothing
unix_socket_paths(accessible) ==
    IF unix_socket_directories(accessible) = << >> THEN None
    ELSE Head(unix_socket_directories(accessible))

\* every call makes a socket of its own: the k-th call of process p
Sockets == 1..(NumProcs * MaxCalls)

socket_of(p, k) == p + NumProcs * (k - 1)

\* the process that made a socket
owner(s) == ((s - 1) % NumProcs) + 1

\* the local s of the call process p is in (of its last call, after it)
S(p) == socket_of(p, ncalls[p])

\* the process has started and has not ended
Alive(p) == pc[p] \notin {"idle", "dead"}

\* a socket in listening state accepts connections
Listening(s) == s # None /\ sock[s] = "listening"

\* the sockets a remove_socket_file registered by atexit.register refers to
Registered(p) == {atexit[p][i].s : i \in DOMAIN atexit[p]}

(***************************************************************************)
(* Results of the system calls, as the kernel decides them                 *)
(***************************************************************************)
\* an errno a system call can fail with beyond the ones its state explains
\* (too many open descriptors), which no except clause names
FaultErrnos == {"EMFILE"}

\* number of system calls that fail so
MaxFaults == 1

\* a fault can happen while the environment has one left
Faults == IF faults > 0 THEN FaultErrnos ELSE {}

\* the faults left after a call that ended with errno e
AfterFault(e) == IF e \in FaultErrnos THEN faults - 1 ELSE faults

\* s.bind('\0' + name), utils.py line 480
AbstractBind(p) ==
    IF ~abstract_supported THEN "ENOENT"
    ELSE IF abstract_addr = None THEN "ok"
    ELSE "EADDRINUSE"

\* a lockf that is never refused
LockfAlways(p, d) == "ok"

\* fcntl.lockf(fd, LOCK_EX | LOCK_NB), line 440: the lock is free or held by
\* the caller itself (POSIX locks belong to the process), else EAGAIN
Lockf(p, d) ==
    IF lock_owner[d] \in {None, p} THEN "ok" ELSE "EAGAIN"

\* s.bind(socket_path), lines 451 and 455
Bind(d) ==
    IF socket_file[d] = None THEN "ok" ELSE "EADDRINUSE"

\* s.connect(addr) to the socket q bound there (None: nothing bound there)
Connect(q) ==
    IF Listening(q) THEN "ok" ELSE "ECONNREFUSED"

\* the sockets are closed: an abstract address disappears with its socket,
\* a socket file stays on disk
CloseSocket(closing) ==
    /\ sock' = [s \in Sockets |->
                   IF s \in closing /\ sock[s] # "none" THEN "closed"
                   ELSE sock[s]]
    /\ abstract_addr' = IF abstract_addr \in closing THEN None
                        ELSE abstract_addr

\* the except clauses: what the code does with the errno of a failed call
\* an except clause that falls back to the filesystem on every other errno
abstract_bind_except_fallback(e) ==
    IF e = "EADDRINUSE" THEN "connect" ELSE "unix"

\* lines 481-488
abstract_bind_except(e) ==
    IF e = "ENOENT" THEN "unix"
    ELSE IF e = "EADDRINUSE" THEN "connect"
    ELSE "raise"

\* lines 441-448
lockf_except(e) ==
    IF e \in {"EAGAIN", "EACCES"} THEN "client" ELSE "raise"

\* lines 452-457
bind_except(e) ==
    IF e \in {"EADDRINUSE", "EEXIST"} THEN "unlink" ELSE "raise"

\* self.socket = s (lines 446, 458, 486, 490): the socket the attribute held
\* before loses that reference, and is closed by the garbage collector unless
\* a registered remove_socket_file still refers to it
Retain(p, state) ==
    [s \in Sockets |->
        IF s = S(p) THEN state
        ELSE IF s = retained[p] /\ s \notin Registered(p) /\ sock[s] # "none"
             THEN "closed"
        ELSE sock[s]]

\* a call that registers nothing
atexit_register_nothing(p, path) == atexit[p]

\* atexit.register(remove_socket_file, s, socket_path), lines 459 and 492
\* (there without a path)
atexit_register(p, path) == Append(atexit[p], [s |-> S(p), path |-> path])

\* an OSError: the system call that failed and its errno
OSError(call, e) == [call |-> call, errno |-> e]

\* no system call of the current call has failed
NoError == [call |-> "none", errno |-> "none"]

\* an OSError leaves the call: the local s is dropped and closed
Raise(p, call, e) ==
    /\ sock' = [sock EXCEPT ![S(p)] = "closed"]
    /\ ret' = [ret EXCEPT ![p] = "raise"]
    /\ errno' = [errno EXCEPT ![p] = OSError(call, e)]
    /\ pc' = [pc EXCEPT ![p] = "done"]

(***************************************************************************)
(* SingleInstance.__call__                                                 *)
(***************************************************************************)
\* lines 470-478: a process calls single_instance(group_id); s = socket()
single_instance_call(p) ==
    /\ pc[p] = "idle"
    /\ pc' = [pc EXCEPT ![p] = "abs_bind"]
    /\ ncalls' = [ncalls EXCEPT ![p] = 1]
    /\ sock' = [sock EXCEPT ![socket_of(p, 1)] = "unbound"]
    /\ UNCHANGED <<is_macos, abstract_supported, faults, abstract_addr,
                   lockfile, lock_owner, socket_file, probes, loc, ret,
                   branch, errno, retained, atexit, peer, earlier>>
    /\ UNCHANGED <<env_vars, fn_vars>>

\* lines 470-478 again: the process calls single_instance once more, after a
\* call that returned a role; nothing in the code remembers that call
single_instance_call_again(p) ==
    /\ pc[p] = "done"
    /\ ret[p] \in {"True", "False"}
    /\ ncalls[p] < MaxCalls
    /\ earlier' = [earlier EXCEPT ![p] =
                      Append(@, [ret |-> ret[p], socket |-> retained[p]])]
    /\ ncalls' = [ncalls EXCEPT ![p] = @ + 1]
    /\ sock' = [sock EXCEPT ![socket_of(p, ncalls[p] + 1)] = "unbound"]
    /\ pc' = [pc EXCEPT ![p] = "abs_bind"]
    /\ probes' = [probes EXCEPT ![p] = << >>]
    /\ loc' = [loc EXCEPT ![p] = None]
    /\ ret' = [ret EXCEPT ![p] = "none"]
    /\ branch' = [branch EXCEPT ![p] = "none"]
    /\ errno' = [errno EXCEPT ![p] = NoError]
    /\ UNCHANGED <<is_macos, abstract_supported, faults, abstract_addr,
                   lockfile, lock_owner, socket_file, retained, atexit, peer>>
    /\ UNCHANGED <<env_vars, fn_vars>>

\* lines 479-488: s.bind(addr) and the dispatch on its errno
single_instance_bind(p) ==
    /\ pc[p] = "abs_bind"
    /\ \E e \in {AbstractBind(p)} \cup Faults :
          /\ faults' = AfterFault(e)
          /\ \/ /\ e = "ok"
                /\ abstract_addr' = S(p)
                /\ sock' = [sock EXCEPT ![S(p)] = "bound"]
                /\ branch' = [branch EXCEPT ![p] = "abs_server"]
                /\ pc' = [pc EXCEPT ![p] = "abs_listen"]
                /\ UNCHANGED <<ret, errno>>
             \/ /\ e # "ok"
                /\ abstract_bind_except(e) = "connect"
                /\ branch' = [branch EXCEPT ![p] = "abs_client"]
                /\ pc' = [pc EXCEPT ![p] = "abs_connect"]
                /\ errno' = [errno EXCEPT ![p] = OSError("abstract_bind", e)]
                /\ UNCHANGED <<abstract_addr, sock, ret>>
             \/ /\ e # "ok"
                /\ abstract_bind_except(e) = "unix"
                /\ branch' = [branch EXCEPT ![p] = "unix"]
                /\ pc' = [pc EXCEPT ![p] = "unix_paths"]
                /\ errno' = [errno EXCEPT ![p] = OSError("abstract_bind", e)]
                /\ UNCHANGED <<abstract_addr, sock, ret>>
             \/ /\ e # "ok"
                /\ abstract_bind_except(e) = "raise"
                /\ Raise(p, "abstract_bind", e)
                /\ UNCHANGED <<abstract_addr, branch>>
    /\ UNCHANGED <<is_macos, abstract_supported, lockfile, lock_owner,
                   socket_file, ncalls, probes, loc, retained, atexit, peer,
                   earlier>>
    /\ UNCHANGED <<env_vars, fn_vars>>

\* lines 489-493: s.listen(); self.socket = s; atexit.register(
\* remove_socket_file, s); return True
single_instance_listen(p) ==
    /\ pc[p] = "abs_listen"
    /\ sock' = Retain(p, "listening")
    /\ retained' = [retained EXCEPT ![p] = S(p)]
    /\ atexit' = [atexit EXCEPT ![p] = atexit_register(p, None)]
    /\ ret' = [ret EXCEPT ![p] = "True"]
    /\ pc' = [pc EXCEPT ![p] = "done"]
    /\ UNCHANGED <<is_macos, abstract_supported, faults, abstract_addr,
                   lockfile, lock_owner, socket_file, ncalls, probes, loc,
                   branch, errno, peer, earlier>>
    /\ UNCHANGED <<env_vars, fn_vars>>

\* lines 485-488: s.connect(addr); self.socket = s; return False.  An error
\* of connect is not caught: it propagates and the socket is dropped
single_instance_connect(p) ==
    /\ pc[p] = "abs_connect"
    /\ \E e \in {Connect(abstract_addr)} \cup Faults :
          /\ faults' = AfterFault(e)
          /\ \/ /\ e = "ok"
                /\ sock' = Retain(p, "connected")
                /\ peer' = [peer EXCEPT ![S(p)] = abstract_addr]
                /\ retained' = [retained EXCEPT ![p] = S(p)]
                /\ ret' = [ret EXCEPT ![p] = "False"]
                /\ pc' = [pc EXCEPT ![p] = "done"]
                /\ UNCHANGED errno
             \/ /\ e # "ok"
                /\ Raise(p, "connect", e)
                /\ UNCHANGED <<peer, retained>>
    /\ UNCHANGED <<is_macos, abstract_supported, abstract_addr,
                   lockfile, lock_owner, socket_file, ncalls, probes, loc,
                   branch, atexit, earlier>>
    /\ UNCHANGED <<env_vars, fn_vars>>

(***************************************************************************)
(* single_instance_unix                                                    *)
(***************************************************************************)
\* every candidate tested so far, whatever os.access answered
AccessibleOrNot(pr) == {pr[i].dir : i \in DOMAIN pr}

\* the candidates os.access has accepted so far in this call
Accessible(pr) == {pr[i].dir : i \in {j \in DOMAIN pr : pr[j].ok}}

\* line 436 with lines 397-399 and 404-406: the generator tests the next
\* candidate with os.access and yields its path if the test passes.  When
\* the candidates are exhausted the loop body never ran: line 463 returns
\* False, with no socket made and single_instance.socket left as it was
single_instance_unix_paths(p) ==
    /\ pc[p] = "unix_paths"
    /\ IF Len(probes[p]) = Len(candidates)
       THEN /\ ret' = [ret EXCEPT ![p] = "False"]
            /\ branch' = [branch EXCEPT ![p] = "unix_nodir"]
            /\ sock' = [sock EXCEPT ![S(p)] = "closed"]
            /\ pc' = [pc EXCEPT ![p] = "done"]
            /\ UNCHANGED <<probes, loc>>
       ELSE /\ \E ok \in BOOLEAN :
                  probes' = [probes EXCEPT ![p] =
                      Append(@, [dir |-> candidates[Len(@) + 1], ok |-> ok])]
            /\ loc' = [loc EXCEPT ![p] =
                          unix_socket_paths(Accessible(probes'[p]))]
            /\ pc' = [pc EXCEPT ![p] = IF loc'[p] # None THEN "unix_open"
                                       ELSE "unix_paths"]
            /\ UNCHANGED <<ret, branch, sock>>
    /\ UNCHANGED <<is_macos, abstract_supported, faults, abstract_addr,
                   lockfile, lock_owner, socket_file, ncalls, errno, retained,
                   atexit, peer, earlier>>
    /\ UNCHANGED <<env_vars, fn_vars>>

\* line 438: os.open(path, O_CREAT | O_WRONLY | O_TRUNC | O_CLOEXEC) creates
\* the lockfile if absent and truncates it, which stamps its modification
\* time, before anything is known about the lock
OpenTrunc(f) == [exists |-> TRUE, mtime |-> f.mtime + 1]

\* line 438 is outside every try: an error of os.open propagates
single_instance_unix_open(p) ==
    /\ pc[p] = "unix_open"
    /\ \E e \in {"ok"} \cup Faults :
          /\ faults' = AfterFault(e)
          /\ \/ /\ e = "ok"
                /\ lockfile' = [lockfile EXCEPT ![loc[p]] = OpenTrunc(@)]
                /\ pc' = [pc EXCEPT ![p] = "unix_lockf"]
                /\ UNCHANGED <<sock, ret, errno>>
             \/ /\ e # "ok"
                /\ Raise(p, "open", e)
                /\ UNCHANGED lockfile
    /\ UNCHANGED <<is_macos, abstract_supported, abstract_addr,
                   lock_owner, socket_file, ncalls, probes, loc, branch,
                   retained, atexit, peer, earlier>>
    /\ UNCHANGED <<env_vars, fn_vars>>

\* lines 439-449: fcntl.lockf(fd, LOCK_EX | LOCK_NB); EAGAIN/EACCES is the
\* Client branch, any other error propagates
single_instance_unix_lockf(p) ==
    /\ pc[p] = "unix_lockf"
    /\ \E e \in {Lockf(p, loc[p])} \cup Faults :
          /\ faults' = AfterFault(e)
          /\ \/ /\ e = "ok"
                /\ lock_owner' = [lock_owner EXCEPT ![loc[p]] = p]
                /\ branch' = [branch EXCEPT ![p] = "unix_server"]
                /\ pc' = [pc EXCEPT ![p] = "unix_bind"]
                /\ UNCHANGED <<sock, ret, errno>>
             \/ /\ e # "ok"
                /\ lockf_except(e) = "client"
                /\ branch' = [branch EXCEPT ![p] = "unix_client"]
                /\ pc' = [pc EXCEPT ![p] = "unix_connect"]
                /\ errno' = [errno EXCEPT ![p] = OSError("lockf", e)]
                /\ UNCHANGED <<lock_owner, sock, ret>>
             \/ /\ e # "ok"
                /\ lockf_except(e) = "raise"
                /\ Raise(p, "lockf", e)
                /\ UNCHANGED <<lock_owner, branch>>
    /\ UNCHANGED <<is_macos, abstract_supported, abstract_addr,
                   lockfile, socket_file, ncalls, probes, loc, retained,
                   atexit, peer, earlier>>
    /\ UNCHANGED <<env_vars, fn_vars>>

\* lines 444-448: s.connect(socket_path); single_instance.socket = s;
\* return False.  An error of connect (ENOENT, ECONNREFUSED) propagates
single_instance_unix_connect(p) ==
    /\ pc[p] = "unix_connect"
    /\ \E e \in {Connect(socket_file[loc[p]])} \cup Faults :
          /\ faults' = AfterFault(e)
          /\ \/ /\ e = "ok"
                /\ sock' = Retain(p, "connected")
                /\ peer' = [peer EXCEPT ![S(p)] = socket_file[loc[p]]]
                /\ retained' = [retained EXCEPT ![p] = S(p)]
                /\ ret' = [ret EXCEPT ![p] = "False"]
                /\ pc' = [pc EXCEPT ![p] = "done"]
                /\ UNCHANGED errno
             \/ /\ e # "ok"
                /\ Raise(p, "connect", e)
                /\ UNCHANGED <<peer, retained>>
    /\ UNCHANGED <<is_macos, abstract_supported, abstract_addr,
                   lockfile, lock_owner, socket_file, ncalls, probes, loc,
                   branch, atexit, earlier>>
    /\ UNCHANGED <<env_vars, fn_vars>>

\* lines 449-457: s.bind(socket_path); EADDRINUSE/EEXIST leads to the
\* unlink, any other error propagates
single_instance_unix_bind(p) ==
    /\ pc[p] = "unix_bind"
    /\ \E e \in {Bind(loc[p])} \cup Faults :
          /\ faults' = AfterFault(e)
          /\ \/ /\ e = "ok"
                /\ socket_file' = [socket_file EXCEPT ![loc[p]] = S(p)]
                /\ sock' = [sock EXCEPT ![S(p)] = "bound"]
                /\ pc' = [pc EXCEPT ![p] = "unix_listen"]
                /\ UNCHANGED <<branch, ret, errno>>
             \/ /\ e # "ok"
                /\ bind_except(e) = "unlink"
                /\ branch' = [branch EXCEPT ![p] = "unix_stale"]
                /\ pc' = [pc EXCEPT ![p] = "unix_unlink"]
                /\ errno' = [errno EXCEPT ![p] = OSError("bind", e)]
                /\ UNCHANGED <<socket_file, sock, ret>>
             \/ /\ e # "ok"
                /\ bind_except(e) = "raise"
                /\ Raise(p, "bind", e)
                /\ UNCHANGED <<socket_file, branch>>
    /\ UNCHANGED <<is_macos, abstract_supported, abstract_addr,
                   lockfile, lock_owner, ncalls, probes, loc, retained,
                   atexit, peer, earlier>>
    /\ UNCHANGED <<env_vars, fn_vars>>

\* an unlink that leaves the file in place
UnlinkKeeps(d) == socket_file

\* os.unlink(socket_path), lines 387 and 454: the directory entry is gone
Unlink(d) == [socket_file EXCEPT ![d] = None]

\* line 454: os.unlink(socket_path); ENOENT would propagate
single_instance_unix_unlink(p) ==
    /\ pc[p] = "unix_unlink"
    /\ IF socket_file[loc[p]] # None
       THEN /\ socket_file' = Unlink(loc[p])
            /\ pc' = [pc EXCEPT ![p] = "unix_rebind"]
            /\ UNCHANGED <<sock, ret, errno>>
       ELSE /\ Raise(p, "unlink", "ENOENT")
            /\ UNCHANGED socket_file
    /\ UNCHANGED <<is_macos, abstract_supported, faults, abstract_addr,
                   lockfile, lock_owner, ncalls, probes, loc, branch,
                   retained, atexit, peer, earlier>>
    /\ UNCHANGED <<env_vars, fn_vars>>

\* line 455: the second s.bind(socket_path); its error is not caught
single_instance_unix_rebind(p) ==
    /\ pc[p] = "unix_rebind"
    /\ \E e \in {Bind(loc[p])} \cup Faults :
          /\ faults' = AfterFault(e)
          /\ \/ /\ e = "ok"
                /\ socket_file' = [socket_file EXCEPT ![loc[p]] = S(p)]
                /\ sock' = [sock EXCEPT ![S(p)] = "bound"]
                /\ pc' = [pc EXCEPT ![p] = "unix_listen"]
                /\ UNCHANGED <<ret, errno>>
             \/ /\ e # "ok"
                /\ Raise(p, "rebind", e)
                /\ UNCHANGED socket_file
    /\ UNCHANGED <<is_macos, abstract_supported, abstract_addr,
                   lockfile, lock_owner, ncalls, probes, loc, branch,
                   retained, atexit, peer, earlier>>
    /\ UNCHANGED <<env_vars, fn_vars>>

\* lines 458-462: single_instance.socket = s; atexit.register(
\* remove_socket_file, s, socket_path); s.listen(); return True
single_instance_unix_listen(p) ==
    /\ pc[p] = "unix_listen"
    /\ retained' = [retained EXCEPT ![p] = S(p)]
    /\ atexit' = [atexit EXCEPT ![p] = atexit_register(p, loc[p])]
    /\ sock' = Retain(p, "listening")
    /\ ret' = [ret EXCEPT ![p] = "True"]
    /\ pc' = [pc EXCEPT ![p] = "done"]
    /\ UNCHANGED <<is_macos, abstract_supported, faults, abstract_addr,
                   lockfile, lock_owner, socket_file, ncalls, probes, loc,
                   branch, errno, peer, earlier>>
    /\ UNCHANGED <<env_vars, fn_vars>>

(***************************************************************************)
(* Process exit: the atexit handlers remove_socket_file, then the kernel   *)
(***************************************************************************)
\* lines 380-381: the interpreter exits and runs the registered handlers,
\* last registered first; each first closes its socket
remove_socket_file_close(p) ==
    /\ pc[p] \in {"done", "exit_close"}
    /\ IF atexit[p] # << >>
       THEN CloseSocket({atexit[p][Len(atexit[p])].s})
       ELSE UNCHANGED <<sock, abstract_addr>>
    /\ pc' = [pc EXCEPT ![p] = "exit_unlink"]
    /\ UNCHANGED <<is_macos, abstract_supported, faults, lockfile, lock_owner,
                   socket_file, ncalls, probes, loc, ret, branch, errno,
                   retained, atexit, peer, earlier>>
    /\ UNCHANGED <<env_vars, fn_vars>>

\* lines 382-387: os.unlink(path) when a path was registered (an OSError of
\* the unlink is suppressed); then the next handler, if any
remove_socket_file_unlink(p) ==
    /\ pc[p] = "exit_unlink"
    /\ socket_file' = IF atexit[p] # << >>
                         /\ atexit[p][Len(atexit[p])].path # None
                      THEN Unlink(atexit[p][Len(atexit[p])].path)
                      ELSE socket_file
    /\ atexit' = [atexit EXCEPT ![p] =
                     IF @ = << >> THEN @ ELSE SubSeq(@, 1, Len(@) - 1)]
    /\ pc' = [pc EXCEPT ![p] = IF Len(atexit[p]) > 1 THEN "exit_close"
                               ELSE "exit_final"]
    /\ UNCHANGED <<is_macos, abstract_supported, faults, abstract_addr,
                   lockfile, lock_owner, sock, ncalls, probes, loc, ret,
                   branch, errno, retained, peer, earlier>>
    /\ UNCHANGED <<env_vars, fn_vars>>

\* the kernel reaps a process: every descriptor is closed, which closes its
\* sockets and releases its lockf() locks; files stay on disk
Reap(p) ==
    /\ CloseSocket({s \in Sockets : owner(s) = p})
    /\ lock_owner' = [d \in Dirs |-> IF lock_owner[d] = p THEN None
                                     ELSE lock_owner[d]]
    /\ pc' = [pc EXCEPT ![p] = "dead"]
    /\ UNCHANGED <<is_macos, abstract_supported, faults, lockfile,
                   socket_file, ncalls, probes, loc, ret, branch, errno,
                   retained, atexit, peer, earlier>>
    /\ UNCHANGED <<env_vars, fn_vars>>

\* the process ends after its exit handlers ran
process_exit(p) ==
    /\ pc[p] = "exit_final"
    /\ Reap(p)

\* the process is killed at any point: no exit handler runs
process_crash(p) ==
    /\ Alive(p)
    /\ pc[p] # "exit_final"
    /\ Reap(p)

(***************************************************************************)
(* read_shell_environment: bounds and data                                 *)
(***************************************************************************)
\* number of threads of one process that call read_shell_environment
NumThreads == 2

\* the poll loop's deadline (1.5 s of waits of 0.01 s), in loop iterations
MaxPolls == 2

\* most bytes a child writes to the pseudo-terminal during one call
MaxOut == 3

\* longest captured output whose parse is checked; of a longer raw the
\* model keeps the first MaxRaw bytes
MaxRaw == 7

\* bytes the pseudo-terminal holds for the reader before a writer that is
\* not the shell has to wait
MaxPty == 1

Threads == 1..NumThreads

LF == "LF"

CR == "CR"

EQ == "="

\* a byte that is not valid UTF-8, and what decode(..., 'replace') makes of it
BadByte == "0xff"

ReplacementChar == "U+FFFD"

Bytes == {"a", EQ, LF, CR, BadByte}

\* Popen.returncode before the child has been waited for
NoReturncode == -1

ExitCodes == {0, 1}

\* the captured outputs whose parse is checked: every string of at most
\* MaxRaw bytes over the bytes that shape lines, keys and values
ParseBytes == {"a", EQ, LF, CR}

ParseInputs == UNION {[1..n -> ParseBytes] : n \in 0..MaxRaw}

(***************************************************************************)
(* Parsing of the captured output, lines 904-908                           *)
(***************************************************************************)
\* raw.decode('utf-8', 'replace')
decode(bytes) ==
    [i \in 1..Len(bytes) |->
        IF bytes[i] = BadByte THEN ReplacementChar ELSE bytes[i]]

\* str.splitlines(): LF, CR and CR LF end a line; what follows the last line
\* end is a line only if it is not empty
RECURSIVE splitlines_from(_, _, _)
splitlines_from(text, i, line) ==
    IF i > Len(text)
    THEN IF line = << >> THEN << >> ELSE <<line>>
    ELSE IF text[i] = CR /\ i < Len(text) /\ text[i + 1] = LF
    THEN <<line>> \o splitlines_from(text, i + 2, << >>)
    ELSE IF text[i] \in {CR, LF}
    THEN <<line>> \o splitlines_from(text, i + 1, << >>)
    ELSE splitlines_from(text, i + 1, Append(line, text[i]))

splitlines(text) == splitlines_from(text, 1, << >>)

\* the index of the first '=' of a line, 0 when it has none
RECURSIVE find_from(_, _)
find_from(line, i) ==
    IF i > Len(line) THEN 0
    ELSE IF line[i] = EQ THEN i
    ELSE find_from(line, i + 1)

\* the index of the last '=' of a line at or before i, 0 when there is none
RECURSIVE rfind_from(_, _)
rfind_from(line, i) ==
    IF i < 1 THEN 0
    ELSE IF line[i] = EQ THEN i
    ELSE rfind_from(line, i - 1)

\* line.rpartition('=')[::2] for a line with an '=': (head, tail) around
\* the last '='
rpartition(line) ==
    IF rfind_from(line, Len(line)) = 0 THEN <<line, << >> >>
    ELSE <<SubSeq(line, 1, rfind_from(line, Len(line)) - 1),
           SubSeq(line, rfind_from(line, Len(line)) + 1, Len(line))>>

\* line.partition('=')[::2]: (head, tail) around the first '='; a line
\* without '=' gives (line, '')
partition(line) ==
    IF find_from(line, 1) = 0 THEN <<line, << >> >>
    ELSE <<SubSeq(line, 1, find_from(line, 1) - 1),
           SubSeq(line, find_from(line, 1) + 1, Len(line))>>

\* ans[k] = v
setitem(d, k, v) ==
    [x \in (DOMAIN d) \cup {k} |-> IF x = k THEN v ELSE d[x]]

\* the loop of lines 905-908 over lines[i..], starting from the dict d
RECURSIVE parse_lines(_, _, _)
parse_lines(d, lines, i) ==
    IF i > Len(lines) THEN d
    ELSE LET kv == partition(lines[i])
         IN  IF kv[1] # << >> /\ kv[2] # << >>
             THEN parse_lines(setitem(d, kv[1], kv[2]), lines, i + 1)
             ELSE parse_lines(d, lines, i + 1)

\* lines 904-908: the contents of ans after the loop
parse_env(d, bytes) == parse_lines(d, splitlines(decode(bytes)), 1)

(***************************************************************************)
(* read_shell_environment                                                  *)
(***************************************************************************)
\* the diagnostics passed to log_error, lines 877, 893 and 910
NotFoundMessage == "Could not find shell to read environment"

TimeoutMessage ==
    "Timed out waiting for shell to quit while reading shell environment"

FailedMessage == "Failed to run shell to read its environment"

\* no call is in progress: the calls of a process come one after another
NoCallInProgress == \A u \in Threads : epc[u] \in {"idle", "returned", "raised"}

\* 'if not ans': None and the empty dict alike
is_falsy(a) == a = None \/ heap[a] = << >>

\* line 860: 'if ans is None'
is_None(a) == a = None

\* lines 859-860 and 911: ans = getattr(read_shell_environment, 'ans', None);
\* a cached dict is returned at once
read_shell_environment_getattr(t) ==
    /\ epc[t] = "idle"
    /\ call_order' = Append(call_order, t)
    /\ IF is_None(read_shell_environment_ans)
       THEN /\ epc' = [epc EXCEPT ![t] = "publish"]
            /\ UNCHANGED <<ans, result>>
       ELSE /\ ans' = [ans EXCEPT ![t] = read_shell_environment_ans]
            /\ result' = [result EXCEPT ![t] = read_shell_environment_ans]
            /\ epc' = [epc EXCEPT ![t] = "returned"]
    /\ UNCHANGED <<read_shell_environment_ans, heap, launched, master, slave,
                   popen, child, status, returncode, pty, raw, written, polls,
                   after, killed, log>>
    /\ UNCHANGED <<si_vars, fn_vars>>

\* a call made while no other call of the process is in progress
read_shell_environment_call(t) ==
    /\ NoCallInProgress
    /\ read_shell_environment_getattr(t)

\* lines 862-863: ans = {}; setattr(read_shell_environment, 'ans', ans)
read_shell_environment_publish(t) ==
    /\ epc[t] = "publish"
    /\ heap' = Append(heap, << >>)
    /\ ans' = [ans EXCEPT ![t] = Len(heap) + 1]
    /\ read_shell_environment_ans' = Len(heap) + 1
    /\ epc' = [epc EXCEPT ![t] = "openpty"]
    /\ UNCHANGED <<call_order, launched, result, master, slave, popen, child,
                   status, returncode, pty, raw, written, polls, after,
                   killed, log>>
    /\ UNCHANGED <<si_vars, fn_vars>>

\* lines 866-867: master, slave = openpty(); os.set_blocking(master, False).
\* An OSError of openpty is not caught
read_shell_environment_openpty(t) ==
    /\ epc[t] = "openpty"
    /\ \/ /\ master' = [master EXCEPT ![t] = "open"]
          /\ slave' = [slave EXCEPT ![t] = "open"]
          /\ epc' = [epc EXCEPT ![t] = "popen"]
       \/ /\ epc' = [epc EXCEPT ![t] = "raised"]
          /\ UNCHANGED <<master, slave>>
    /\ UNCHANGED <<read_shell_environment_ans, heap, call_order, launched, ans,
                   result, popen, child, status, returncode, pty, raw,
                   written, polls, after, killed, log>>
    /\ UNCHANGED <<si_vars, fn_vars>>

\* no except clause
catches_nothing(e) == FALSE

\* line 876: except FileNotFoundError
catches(e) == e = "FileNotFoundError"

\* lines 872-878: subprocess.Popen(shell + ['-c', 'env'], ...).  The shell is
\* started; or it is not found, which is logged and ends the call with ans;
\* or Popen fails with another OSError, which propagates
read_shell_environment_Popen(t) ==
    /\ epc[t] = "popen"
    /\ \/ /\ popen' = [popen EXCEPT ![t] = "ok"]
          /\ child' = [child EXCEPT ![t] = "running"]
          /\ launched' = launched \cup {t}
          /\ epc' = [epc EXCEPT ![t] = "poll"]
          /\ UNCHANGED <<result, log>>
       \/ \E e \in {"FileNotFoundError", "PermissionError"} :
             /\ popen' = [popen EXCEPT ![t] = e]
             /\ IF catches(e)
                THEN /\ log' = [log EXCEPT ![t] = @ \cup {NotFoundMessage}]
                     /\ result' = [result EXCEPT ![t] = ans[t]]
                     /\ epc' = [epc EXCEPT ![t] = "returned"]
                ELSE /\ epc' = [epc EXCEPT ![t] = "raised"]
                     /\ UNCHANGED <<result, log>>
             /\ UNCHANGED <<child, launched>>
    /\ UNCHANGED <<read_shell_environment_ans, heap, call_order, ans, master,
                   slave, status, returncode, pty, raw, written, polls,
                   after, killed>>
    /\ UNCHANGED <<si_vars, fn_vars>>

\* raw = x: what was read before is dropped
capture_last(r, x) == x

\* raw += x, lines 889 and 903
capture(r, x) ==
    IF Len(r) + Len(x) <= MaxRaw THEN r \o x
    ELSE SubSeq(r \o x, 1, MaxRaw)

\* lines 883-891: one iteration of the poll loop, entered while the deadline
\* has not passed: p.wait(0.01), then raw += stdout.read() (a read of nothing
\* returns None, and the TypeError is suppressed), then break if the child
\* was waited for.  The loop also ends when the deadline has passed
read_shell_environment_poll(t) ==
    /\ epc[t] = "poll"
    /\ polls[t] < MaxPolls
    /\ polls' = [polls EXCEPT ![t] = @ + 1]
    /\ returncode' = [returncode EXCEPT ![t] =
                        IF child[t] = "exited" THEN status[t] ELSE NoReturncode]
    /\ raw' = [raw EXCEPT ![t] = capture(@, pty[t])]
    /\ pty' = [pty EXCEPT ![t] = << >>]
    /\ epc' = [epc EXCEPT ![t] =
                  IF child[t] = "exited" \/ polls[t] + 1 >= MaxPolls
                  THEN "after" ELSE "poll"]
    /\ UNCHANGED <<read_shell_environment_ans, heap, call_order, launched, ans,
                   result, master, slave, popen, child, status, written,
                   after, killed, log>>
    /\ UNCHANGED <<si_vars, fn_vars>>

\* 'if not p.returncode': None taken for 0
branch_not_returncode(rc) ==
    IF rc = NoReturncode \/ rc = 0 THEN "parse" ELSE "failed"

\* 'elif p.returncode is not None': every exit status taken for success
branch_exit_parses(rc) ==
    IF rc = NoReturncode THEN "timeout" ELSE "parse"

\* lines 892, 895, 909: the branch taken after the loop
branch_after(rc) ==
    IF rc = NoReturncode THEN "timeout"
    ELSE IF rc = 0 THEN "parse"
    ELSE "failed"

\* lines 892-895 and 909-910: timeout (log, kill), exit 0 (go on to drain
\* and parse) or failure (log)
read_shell_environment_after(t) ==
    /\ epc[t] = "after"
    /\ after' = [after EXCEPT ![t] = branch_after(returncode[t])]
    /\ \/ /\ branch_after(returncode[t]) = "timeout"
          /\ log' = [log EXCEPT ![t] = @ \cup {TimeoutMessage}]
          /\ killed' = [killed EXCEPT ![t] = TRUE]
          /\ child' = [child EXCEPT ![t] =
                          IF @ = "running" THEN "killed" ELSE @]
          /\ epc' = [epc EXCEPT ![t] = "close"]
       \/ /\ branch_after(returncode[t]) = "parse"
          /\ epc' = [epc EXCEPT ![t] = "drain"]
          /\ UNCHANGED <<log, killed, child>>
       \/ /\ branch_after(returncode[t]) = "failed"
          /\ log' = [log EXCEPT ![t] = @ \cup {FailedMessage}]
          /\ epc' = [epc EXCEPT ![t] = "close"]
          /\ UNCHANGED <<killed, child>>
    /\ UNCHANGED <<read_shell_environment_ans, heap, call_order, launched, ans,
                   result, master, slave, popen, status, returncode, pty, raw,
                   written, polls>>
    /\ UNCHANGED <<si_vars, fn_vars>>

\* lines 896-908: one x = stdout.read() of the final drain; when it returns
\* nothing the loop ends and the captured bytes are decoded and parsed into
\* the dict ans
read_shell_environment_drain(t) ==
    /\ epc[t] = "drain"
    /\ IF pty[t] # << >>
       THEN /\ raw' = [raw EXCEPT ![t] = capture(@, pty[t])]
            /\ pty' = [pty EXCEPT ![t] = << >>]
            /\ UNCHANGED <<heap, epc>>
       ELSE /\ heap' = [heap EXCEPT ![ans[t]] = parse_env(@, raw[t])]
            /\ epc' = [epc EXCEPT ![t] = "close"]
            /\ UNCHANGED <<raw, pty>>
    /\ UNCHANGED <<read_shell_environment_ans, call_order, launched, ans,
                   result, master, slave, popen, child, status, returncode,
                   written, polls, after, killed, log>>
    /\ UNCHANGED <<si_vars, fn_vars>>

\* lines 879 and 911: the with statement closes stdout (master) and the slave
\* file; return ans
read_shell_environment_return(t) ==
    /\ epc[t] = "close"
    /\ master' = [master EXCEPT ![t] = "closed"]
    /\ slave' = [slave EXCEPT ![t] = "closed"]
    /\ result' = [result EXCEPT ![t] = ans[t]]
    /\ epc' = [epc EXCEPT ![t] = "returned"]
    /\ UNCHANGED <<read_shell_environment_ans, heap, call_order, launched, ans,
                   popen, child, status, returncode, pty, raw, written, polls,
                   after, killed, log>>
    /\ UNCHANGED <<si_vars, fn_vars>>

(***************************************************************************)
(* The shell child                                                         *)
(***************************************************************************)
\* the child writes one byte to the slave side of the pseudo-terminal
child_write(t) ==
    /\ child[t] = "running"
    /\ Len(written[t]) < MaxOut
    /\ \E b \in Bytes :
          /\ pty' = [pty EXCEPT ![t] = Append(@, b)]
          /\ written' = [written EXCEPT ![t] = Append(@, b)]
    /\ UNCHANGED <<read_shell_environment_ans, heap, call_order, launched, epc,
                   ans, result, master, slave, popen, child, status,
                   returncode, raw, polls, after, killed, log>>
    /\ UNCHANGED <<si_vars, fn_vars>>

\* the child exits with some status
child_exit(t) ==
    /\ child[t] = "running"
    /\ \E code \in ExitCodes : status' = [status EXCEPT ![t] = code]
    /\ child' = [child EXCEPT ![t] = "exited"]
    /\ UNCHANGED <<read_shell_environment_ans, heap, call_order, launched, epc,
                   ans, result, master, slave, popen, returncode, pty, raw,
                   written, polls, after, killed, log>>
    /\ UNCHANGED <<si_vars, fn_vars>>

\* what 'env' prints: a line that makes an entry, or one that makes none
EnvOutputs == {out \in {<<"a", EQ, "a">>, <<"a", EQ>>} : Len(out) <= MaxOut}

\* the child runs 'env', which writes its whole output in one write to the
\* slave side of the pseudo-terminal
child_env(t) ==
    /\ child[t] = "running"
    /\ written[t] = << >>
    /\ \E out \in EnvOutputs :
          /\ pty' = [pty EXCEPT ![t] = @ \o out]
          /\ written' = [written EXCEPT ![t] = out]
    /\ UNCHANGED <<read_shell_environment_ans, heap, call_order, launched, epc,
                   ans, result, master, slave, popen, child, status,
                   returncode, raw, polls, after, killed, log>>
    /\ UNCHANGED <<si_vars, fn_vars>>

\* what a process other than the shell writes
BackgroundBytes == {"a"}

\* a process the shell left behind still holds the slave side and writes a
\* byte to it, as long as the master side is open and the pseudo-terminal
\* has room
background_write(t) ==
    /\ child[t] = "exited"
    /\ master[t] = "open"
    /\ Len(pty[t]) < MaxPty
    /\ \E b \in BackgroundBytes : pty' = [pty EXCEPT ![t] = Append(@, b)]
    /\ UNCHANGED <<read_shell_environment_ans, heap, call_order, launched, epc,
                   ans, result, master, slave, popen, child, status,
                   returncode, raw, written, polls, after, killed, log>>
    /\ UNCHANGED <<si_vars, fn_vars>>

\* the steps of the thread that is in read_shell_environment
read_shell_environment_step(t) ==
    \/ read_shell_environment_call(t)
    \/ read_shell_environment_publish(t)
    \/ read_shell_environment_openpty(t)
    \/ read_shell_environment_Popen(t)
    \/ read_shell_environment_poll(t)
    \/ read_shell_environment_after(t)
    \/ read_shell_environment_drain(t)
    \/ read_shell_environment_return(t)

(***************************************************************************)
(* Addressing: the name, the abstract address and the two file paths       *)
(***************************************************************************)
\* strings are sequences of one-character strings
NUL == "NUL"

Digits == <<"0", "1", "2", "3", "4", "5", "6", "7", "8", "9">>

\* str(n) of a natural number, as an f-string formats os.geteuid()
RECURSIVE str(_)
str(n) ==
    IF n < 10 THEN <<Digits[n + 1]>>
    ELSE str(n \div 10) \o <<Digits[(n % 10) + 1]>>

\* an Optional[str]: None, or a string
Absent == [some |-> FALSE, value |-> << >>]

Some(s) == [some |-> TRUE, value |-> s]

\* lines 472-474: name = f'{appname}-ipc-{os.geteuid()}';
\* if group_id: name += f'-{group_id}'
ipc_name(app, euid, group_id) ==
    LET name == app \o <<"-", "i", "p", "c", "-">> \o str(euid)
    IN  IF group_id.some /\ group_id.value # << >>
        THEN name \o <<"-">> \o group_id.value
        ELSE name

\* line 478: addr = '\0' + name
addr(name) == <<NUL>> \o name

\* os.path.join(loc, filename), line 406, for a filename that is not an
\* absolute path
join(directory, filename) ==
    IF directory # << >> /\ directory[Len(directory)] = "/"
    THEN directory \o filename
    ELSE directory \o <<"/">> \o filename

\* lines 405-406: the path unix_socket_paths(name, ext) yields for loc
unix_socket_path(directory, home_dir, name, ext) ==
    join(directory,
         (IF directory = home_dir THEN <<".">> ELSE << >>) \o name \o ext)

\* the index of the first c of s at or after i, 0 when there is none
RECURSIVE index_from(_, _, _)
index_from(s, c, i) ==
    IF i > Len(s) THEN 0
    ELSE IF s[i] = c THEN i
    ELSE index_from(s, c, i + 1)

\* the index of the last c of s at or before i, 0 when there is none
RECURSIVE rindex_from(_, _, _)
rindex_from(s, c, i) ==
    IF i < 1 THEN 0
    ELSE IF s[i] = c THEN i
    ELSE rindex_from(s, c, i - 1)

\* path.partition('.')[0]: the part before the first dot
partition_head(path) ==
    IF index_from(path, ".", 1) = 0 THEN path
    ELSE SubSeq(path, 1, index_from(path, ".", 1) - 1)

\* path.rpartition('.')[0], line 437: the part before the last dot, '' when
\* there is no dot
rpartition_head(path) ==
    SubSeq(path, 1, rindex_from(path, ".", Len(path)) - 1)

\* line 437: socket_path = path.rpartition('.')[0] + '.sock'
socket_path(path) == rpartition_head(path) \o <<".", "s", "o", "c", "k">>

\* the arguments the addressing is checked on: application names, effective
\* uids and group ids with and without dots, and directories with and
\* without dots, one of them the home directory
AddressingInputs ==
    [app : {<<"k">>, <<"k", ".", "y">>},
     euid : {0, 1000},
     group_id : {Absent, Some(<< >>), Some(<<"g">>), Some(<<".">>),
                 Some(<<"g", ".", "x">>)},
     loc : {<<"/", "t">>, <<"/", "h">>, <<"/", "h", ".", "d">>},
     home : {<<"/", "h">>, <<"/", "h", ".", "d">>}]

\* lines 472-478 and 436-438: everything single_instance derives from its
\* arguments and the directory
single_instance_addressing ==
    /\ fn_pc = "called"
    /\ fn_args \in AddressingInputs
    /\ LET name == ipc_name(fn_args.app, fn_args.euid, fn_args.group_id)
           path == unix_socket_path(fn_args.loc, fn_args.home, name,
                                    <<".", "l", "o", "c", "k">>)
       IN  fn_result' = [name |-> name,
                         addr |-> addr(name),
                         path |-> path,
                         socket_path |-> socket_path(path)]
    /\ fn_pc' = "returned"
    /\ UNCHANGED fn_args
    /\ UNCHANGED <<si_vars, env_vars>>

(***************************************************************************)
(* The command line of read_shell_environment                              *)
(***************************************************************************)
\* longest configured shell string, in lexemes
MaxShellLen == 4

\* the option string is a sequence of lexemes: blanks and pieces of words;
\* an argument is a word, a non-empty sequence of pieces
Blank == " "

Pieces == {"sh", "-l", "--login", "-i", "--interactive"}

\* the value of opts.shell that stands for the user's login shell, and the
\* default of getattr(opts, 'shell', '.')
Dot == <<".">>

\* constants.shell_path, as one argument
shell_path == <<"shell_path">>

\* shlex.split(q) for a string without quotes and escapes: the words
\* between runs of blanks; word is the word being read
RECURSIVE shlex_split(_, _)
shlex_split(q, word) ==
    IF q = << >> THEN (IF word = << >> THEN << >> ELSE <<word>>)
    ELSE IF Head(q) = Blank
         THEN (IF word = << >> THEN << >> ELSE <<word>>)
              \o shlex_split(Tail(q), << >>)
    ELSE shlex_split(Tail(q), Append(word, Head(q)))

\* lines 765-772
resolved_shell(q) ==
    IF q = Dot THEN <<shell_path>> ELSE shlex_split(q, << >>)

\* x in shell, for a list
contains(shell, x) == \E i \in DOMAIN shell : shell[i] = x

\* a test that looks for the short flag only
lacks_short(shell, short, long) == ~contains(shell, short)

\* lines 868 and 870: short not in shell and long not in shell
lacks(shell, short, long) == ~contains(shell, short) /\ ~contains(shell, long)

\* lines 868-871 and 874: the argument list handed to Popen
command(shell) ==
    LET login == IF lacks(shell, <<"-l">>, <<"--login">>)
                 THEN shell \o << <<"-l">> >> ELSE shell
        interactive == IF lacks(login, <<"-i">>, <<"--interactive">>)
                       THEN login \o << <<"-i">> >> ELSE login
    IN  interactive \o << <<"-c">>, <<"env">> >>

\* every string of at most n lexemes
RECURSIVE Strings(_)
Strings(n) ==
    IF n = 0 THEN {<< >>}
    ELSE Strings(n - 1) \cup
         {Append(s, x) : s \in {u \in Strings(n - 1) : Len(u) = n - 1},
                         x \in Pieces \cup {Blank}}

\* the values of opts.shell the command is checked on
ShellInputs == {Dot} \cup Strings(MaxShellLen)

\* lines 865-875: shell = resolved_shell(opts), the flags, and the Popen
\* call with its keyword arguments
read_shell_environment_command ==
    /\ fn_pc = "called"
    /\ fn_args \in ShellInputs
    /\ fn_result' = [args |-> command(resolved_shell(fn_args)),
                     stdout |-> "slave", stdin |-> "slave",
                     stderr |-> "slave", start_new_session |-> TRUE,
                     close_fds |-> TRUE]
    /\ fn_pc' = "returned"
    /\ UNCHANGED fn_args
    /\ UNCHANGED <<si_vars, env_vars>>

(***************************************************************************)
(* sanitize_for_bracketed_paste                                            *)
(***************************************************************************)
\* most pieces an input is made of
MaxPaste == 5

\* the bytes \033 and \x9b
ESC == "ESC"

CSI == "0x9b"

\* the inputs are made of the pieces of the end markers, whole or cut, so
\* that markers appear whole, cut, and around one another
PastePieces == {<<ESC, "[">>, <<CSI>>, <<"2", "0", "1", "~">>, <<"2", "0">>,
                <<"1", "~">>, <<ESC>>, <<"[">>}

\* every byte string made of at most n pieces
RECURSIVE PasteStrings(_)
PasteStrings(n) ==
    IF n = 0 THEN {<< >>}
    ELSE PasteStrings(n - 1) \cup
         {s \o x : s \in PasteStrings(n - 1), x \in PastePieces}

PasteInputs == PasteStrings(MaxPaste)

\* line 1124, the pattern (?:(?:\033\[)|(?:\x9b))201~ tried at position i:
\* the length of the introducer found there, 0 when there is none
introducer(text, i) ==
    IF i + 1 <= Len(text) /\ text[i] = ESC /\ text[i + 1] = "["
    THEN 2
    ELSE IF i <= Len(text) /\ text[i] = CSI THEN 1
    ELSE 0

\* the length of the match of the pattern at position i, 0 when none
match(text, i) ==
    LET n == introducer(text, i)
    IN  IF /\ n > 0
           /\ i + n + 3 <= Len(text)
           /\ SubSeq(text, i + n, i + n + 3) = <<"2", "0", "1", "~">>
        THEN n + 4
        ELSE 0

\* pat.sub(b'', text), line 1126: the matches are found from left to right,
\* each search starting after the previous match, and left out
RECURSIVE pat_sub_from(_, _)
pat_sub_from(text, i) ==
    IF i > Len(text) THEN << >>
    ELSE IF match(text, i) > 0 THEN pat_sub_from(text, i + match(text, i))
    ELSE <<text[i]>> \o pat_sub_from(text, i + 1)

pat_sub(text) == pat_sub_from(text, 1)

\* a test that leaves the loop whatever the substitution did
break_always(new_text, text) == TRUE

\* line 1127: if new_text == text
unchanged(new_text, text) == new_text = text

\* line 1123: the function is called; fn_result holds the local text
sanitize_for_bracketed_paste_call ==
    /\ fn_pc = "called"
    /\ fn_result' = fn_args
    /\ fn_pc' = "loop"
    /\ UNCHANGED fn_args
    /\ UNCHANGED <<si_vars, env_vars>>

\* lines 1125-1130: one iteration of the loop: new_text = pat.sub(b'', text);
\* break and return text if nothing changed, else text = new_text
sanitize_for_bracketed_paste_loop ==
    /\ fn_pc = "loop"
    /\ IF unchanged(pat_sub(fn_result), fn_result)
       THEN /\ fn_pc' = "returned"
            /\ UNCHANGED fn_result
       ELSE /\ fn_result' = pat_sub(fn_result)
            /\ UNCHANGED fn_pc
    /\ UNCHANGED fn_args
    /\ UNCHANGED <<si_vars, env_vars>>

(***************************************************************************)
(* Specifications                                                          *)
(***************************************************************************)
\* no process has called single_instance yet, on either kind of platform;
\* no call of read_shell_environment has been made
InitSI ==
    /\ is_macos \in BOOLEAN
    /\ abstract_supported \in BOOLEAN
    /\ is_macos => ~abstract_supported
    /\ faults = 0
    /\ abstract_addr = None
    /\ lockfile = [d \in Dirs |-> [exists |-> FALSE, mtime |-> 0]]
    /\ lock_owner = [d \in Dirs |-> None]
    /\ socket_file = [d \in Dirs |-> None]
    /\ pc = [p \in Procs |-> "idle"]
    /\ ncalls = [p \in Procs |-> 0]
    /\ sock = [s \in Sockets |-> "none"]
    /\ probes = [p \in Procs |-> << >>]
    /\ loc = [p \in Procs |-> None]
    /\ ret = [p \in Procs |-> "none"]
    /\ branch = [p \in Procs |-> "none"]
    /\ errno = [p \in Procs |-> NoError]
    /\ retained = [p \in Procs |-> None]
    /\ atexit = [p \in Procs |-> << >>]
    /\ peer = [s \in Sockets |-> None]
    /\ earlier = [p \in Procs |-> << >>]
    /\ read_shell_environment_ans = None
    /\ heap = << >>
    /\ call_order = << >>
    /\ launched = {}
    /\ epc = [t \in Threads |-> "idle"]
    /\ ans = [t \in Threads |-> None]
    /\ result = [t \in Threads |-> None]
    /\ master = [t \in Threads |-> "none"]
    /\ slave = [t \in Threads |-> "none"]
    /\ popen = [t \in Threads |-> "none"]
    /\ child = [t \in Threads |-> "none"]
    /\ status = [t \in Threads |-> NoReturncode]
    /\ returncode = [t \in Threads |-> NoReturncode]
    /\ pty = [t \in Threads |-> << >>]
    /\ raw = [t \in Threads |-> << >>]
    /\ written = [t \in Threads |-> << >>]
    /\ polls = [t \in Threads |-> 0]
    /\ after = [t \in Threads |-> "none"]
    /\ killed = [t \in Threads |-> FALSE]
    /\ log = [t \in Threads |-> {}]
    /\ fn_pc = "idle"
    /\ fn_args = << >>
    /\ fn_result = None

NextSI ==
    \E p \in Procs :
        \/ single_instance_call(p)
        \/ single_instance_bind(p)
        \/ single_instance_listen(p)
        \/ single_instance_connect(p)
        \/ single_instance_unix_paths(p)
        \/ single_instance_unix_open(p)
        \/ single_instance_unix_lockf(p)
        \/ single_instance_unix_connect(p)
        \/ single_instance_unix_bind(p)
        \/ single_instance_unix_unlink(p)
        \/ single_instance_unix_rebind(p)
        \/ single_instance_unix_listen(p)
        \/ remove_socket_file_close(p)
        \/ remove_socket_file_unlink(p)
        \/ process_exit(p)
        \/ process_crash(p)

\* the processes that coordinate through single_instance
SpecSI == InitSI /\ [][NextSI]_vars

\* the same processes where bind, connect, os.open and lockf can also fail
\* with an errno their except clauses do not name
InitSIFault ==
    /\ is_macos \in BOOLEAN
    /\ abstract_supported \in BOOLEAN
    /\ is_macos => ~abstract_supported
    /\ faults = MaxFaults
    /\ abstract_addr = None
    /\ lockfile = [d \in Dirs |-> [exists |-> FALSE, mtime |-> 0]]
    /\ lock_owner = [d \in Dirs |-> None]
    /\ socket_file = [d \in Dirs |-> None]
    /\ pc = [p \in Procs |-> "idle"]
    /\ ncalls = [p \in Procs |-> 0]
    /\ sock = [s \in Sockets |-> "none"]
    /\ probes = [p \in Procs |-> << >>]
    /\ loc = [p \in Procs |-> None]
    /\ ret = [p \in Procs |-> "none"]
    /\ branch = [p \in Procs |-> "none"]
    /\ errno = [p \in Procs |-> NoError]
    /\ retained = [p \in Procs |-> None]
    /\ atexit = [p \in Procs |-> << >>]
    /\ peer = [s \in Sockets |-> None]
    /\ earlier = [p \in Procs |-> << >>]
    /\ read_shell_environment_ans = None
    /\ heap = << >>
    /\ call_order = << >>
    /\ launched = {}
    /\ epc = [t \in Threads |-> "idle"]
    /\ ans = [t \in Threads |-> None]
    /\ result = [t \in Threads |-> None]
    /\ master = [t \in Threads |-> "none"]
    /\ slave = [t \in Threads |-> "none"]
    /\ popen = [t \in Threads |-> "none"]
    /\ child = [t \in Threads |-> "none"]
    /\ status = [t \in Threads |-> NoReturncode]
    /\ returncode = [t \in Threads |-> NoReturncode]
    /\ pty = [t \in Threads |-> << >>]
    /\ raw = [t \in Threads |-> << >>]
    /\ written = [t \in Threads |-> << >>]
    /\ polls = [t \in Threads |-> 0]
    /\ after = [t \in Threads |-> "none"]
    /\ killed = [t \in Threads |-> FALSE]
    /\ log = [t \in Threads |-> {}]
    /\ fn_pc = "idle"
    /\ fn_args = << >>
    /\ fn_result = None

SpecSIFault == InitSIFault /\ [][NextSI]_vars

\* the same processes where a process can call single_instance again
NextSIAgain ==
    \E p \in Procs :
        \/ single_instance_call(p)
        \/ single_instance_call_again(p)
        \/ single_instance_bind(p)
        \/ single_instance_listen(p)
        \/ single_instance_connect(p)
        \/ single_instance_unix_paths(p)
        \/ single_instance_unix_open(p)
        \/ single_instance_unix_lockf(p)
        \/ single_instance_unix_connect(p)
        \/ single_instance_unix_bind(p)
        \/ single_instance_unix_unlink(p)
        \/ single_instance_unix_rebind(p)
        \/ single_instance_unix_listen(p)
        \/ remove_socket_file_close(p)
        \/ remove_socket_file_unlink(p)
        \/ process_exit(p)
        \/ process_crash(p)

SpecSIAgain == InitSI /\ [][NextSIAgain]_vars

\* no call of read_shell_environment has been made; single_instance is not
\* called
InitEnv ==
    /\ read_shell_environment_ans = None
    /\ heap = << >>
    /\ call_order = << >>
    /\ launched = {}
    /\ epc = [t \in Threads |-> "idle"]
    /\ ans = [t \in Threads |-> None]
    /\ result = [t \in Threads |-> None]
    /\ master = [t \in Threads |-> "none"]
    /\ slave = [t \in Threads |-> "none"]
    /\ popen = [t \in Threads |-> "none"]
    /\ child = [t \in Threads |-> "none"]
    /\ status = [t \in Threads |-> NoReturncode]
    /\ returncode = [t \in Threads |-> NoReturncode]
    /\ pty = [t \in Threads |-> << >>]
    /\ raw = [t \in Threads |-> << >>]
    /\ written = [t \in Threads |-> << >>]
    /\ polls = [t \in Threads |-> 0]
    /\ after = [t \in Threads |-> "none"]
    /\ killed = [t \in Threads |-> FALSE]
    /\ log = [t \in Threads |-> {}]
    /\ fn_pc = "idle"
    /\ fn_args = << >>
    /\ fn_result = None
    /\ is_macos = FALSE
    /\ abstract_supported = TRUE
    /\ faults = 0
    /\ abstract_addr = None
    /\ lockfile = [d \in Dirs |-> [exists |-> FALSE, mtime |-> 0]]
    /\ lock_owner = [d \in Dirs |-> None]
    /\ socket_file = [d \in Dirs |-> None]
    /\ pc = [p \in Procs |-> "idle"]
    /\ ncalls = [p \in Procs |-> 0]
    /\ sock = [s \in Sockets |-> "none"]
    /\ probes = [p \in Procs |-> << >>]
    /\ loc = [p \in Procs |-> None]
    /\ ret = [p \in Procs |-> "none"]
    /\ branch = [p \in Procs |-> "none"]
    /\ errno = [p \in Procs |-> NoError]
    /\ retained = [p \in Procs |-> None]
    /\ atexit = [p \in Procs |-> << >>]
    /\ peer = [s \in Sockets |-> None]
    /\ earlier = [p \in Procs |-> << >>]

NextEnv ==
    \E t \in Threads :
        \/ read_shell_environment_call(t)
        \/ read_shell_environment_publish(t)
        \/ read_shell_environment_openpty(t)
        \/ read_shell_environment_Popen(t)
        \/ read_shell_environment_poll(t)
        \/ read_shell_environment_after(t)
        \/ read_shell_environment_drain(t)
        \/ read_shell_environment_return(t)
        \/ child_write(t)
        \/ child_exit(t)

\* one process whose threads call read_shell_environment one after another
SpecEnv == InitEnv /\ [][NextEnv]_vars

\* the same, where processes the shell left behind write to the
\* pseudo-terminal after it has exited
NextEnvLive ==
    \E t \in Threads :
        \/ read_shell_environment_call(t)
        \/ read_shell_environment_publish(t)
        \/ read_shell_environment_openpty(t)
        \/ read_shell_environment_Popen(t)
        \/ read_shell_environment_poll(t)
        \/ read_shell_environment_after(t)
        \/ read_shell_environment_drain(t)
        \/ read_shell_environment_return(t)
        \/ child_write(t)
        \/ child_exit(t)
        \/ background_write(t)

\* a thread that is in read_shell_environment keeps running: it is never
\* blocked for good, since every wait and read of the function has a timeout
\* or is non-blocking.  The children are under no obligation
SpecEnvLive ==
    /\ InitEnv
    /\ [][NextEnvLive]_vars
    /\ \A t \in Threads : WF_vars(read_shell_environment_step(t))

\* the threads of one process call read_shell_environment at any time, also
\* while a call of another thread is in progress: the interpreter may switch
\* threads between any two of the function's steps
NextEnvThreads ==
    \E t \in Threads :
        \/ read_shell_environment_getattr(t)
        \/ read_shell_environment_publish(t)
        \/ read_shell_environment_openpty(t)
        \/ read_shell_environment_Popen(t)
        \/ read_shell_environment_poll(t)
        \/ read_shell_environment_after(t)
        \/ read_shell_environment_drain(t)
        \/ read_shell_environment_return(t)
        \/ child_env(t)
        \/ child_exit(t)

SpecEnvThreads == InitEnv /\ [][NextEnvThreads]_vars

\* thread 1 is the first caller; its shell has exited with status 0, the
\* poll loop has read all of its output and the final drain is about to run
InitParse ==
    /\ read_shell_environment_ans = 1
    /\ heap = << << >> >>
    /\ call_order = <<1>>
    /\ launched = {1}
    /\ epc = [t \in Threads |-> IF t = 1 THEN "drain" ELSE "idle"]
    /\ ans = [t \in Threads |-> IF t = 1 THEN 1 ELSE None]
    /\ result = [t \in Threads |-> None]
    /\ master = [t \in Threads |-> IF t = 1 THEN "open" ELSE "none"]
    /\ slave = [t \in Threads |-> IF t = 1 THEN "open" ELSE "none"]
    /\ popen = [t \in Threads |-> IF t = 1 THEN "ok" ELSE "none"]
    /\ child = [t \in Threads |-> IF t = 1 THEN "exited" ELSE "none"]
    /\ status = [t \in Threads |-> IF t = 1 THEN 0 ELSE NoReturncode]
    /\ returncode = [t \in Threads |-> IF t = 1 THEN 0 ELSE NoReturncode]
    /\ pty = [t \in Threads |-> << >>]
    /\ \E bytes \in ParseInputs :
          raw = [t \in Threads |-> IF t = 1 THEN bytes ELSE << >>]
    /\ written = raw
    /\ polls = [t \in Threads |-> IF t = 1 THEN 1 ELSE 0]
    /\ after = [t \in Threads |-> IF t = 1 THEN "parse" ELSE "none"]
    /\ killed = [t \in Threads |-> FALSE]
    /\ log = [t \in Threads |-> {}]
    /\ fn_pc = "idle"
    /\ fn_args = << >>
    /\ fn_result = None
    /\ is_macos = FALSE
    /\ abstract_supported = TRUE
    /\ faults = 0
    /\ abstract_addr = None
    /\ lockfile = [d \in Dirs |-> [exists |-> FALSE, mtime |-> 0]]
    /\ lock_owner = [d \in Dirs |-> None]
    /\ socket_file = [d \in Dirs |-> None]
    /\ pc = [p \in Procs |-> "idle"]
    /\ ncalls = [p \in Procs |-> 0]
    /\ sock = [s \in Sockets |-> "none"]
    /\ probes = [p \in Procs |-> << >>]
    /\ loc = [p \in Procs |-> None]
    /\ ret = [p \in Procs |-> "none"]
    /\ branch = [p \in Procs |-> "none"]
    /\ errno = [p \in Procs |-> NoError]
    /\ retained = [p \in Procs |-> None]
    /\ atexit = [p \in Procs |-> << >>]
    /\ peer = [s \in Sockets |-> None]
    /\ earlier = [p \in Procs |-> << >>]

NextParse ==
    \E t \in Threads :
        \/ read_shell_environment_drain(t)
        \/ read_shell_environment_return(t)
        \/ read_shell_environment_call(t)

\* the parse of every captured output of at most MaxRaw bytes
SpecParse == InitParse /\ [][NextParse]_vars

\* single_instance is about to derive its addresses, for every argument
InitAddressing ==
    /\ read_shell_environment_ans = None
    /\ heap = << >>
    /\ call_order = << >>
    /\ launched = {}
    /\ epc = [t \in Threads |-> "idle"]
    /\ ans = [t \in Threads |-> None]
    /\ result = [t \in Threads |-> None]
    /\ master = [t \in Threads |-> "none"]
    /\ slave = [t \in Threads |-> "none"]
    /\ popen = [t \in Threads |-> "none"]
    /\ child = [t \in Threads |-> "none"]
    /\ status = [t \in Threads |-> NoReturncode]
    /\ returncode = [t \in Threads |-> NoReturncode]
    /\ pty = [t \in Threads |-> << >>]
    /\ raw = [t \in Threads |-> << >>]
    /\ written = [t \in Threads |-> << >>]
    /\ polls = [t \in Threads |-> 0]
    /\ after = [t \in Threads |-> "none"]
    /\ killed = [t \in Threads |-> FALSE]
    /\ log = [t \in Threads |-> {}]
    /\ fn_pc = "called"
    /\ fn_args \in AddressingInputs
    /\ fn_result = None
    /\ is_macos = FALSE
    /\ abstract_supported = TRUE
    /\ faults = 0
    /\ abstract_addr = None
    /\ lockfile = [d \in Dirs |-> [exists |-> FALSE, mtime |-> 0]]
    /\ lock_owner = [d \in Dirs |-> None]
    /\ socket_file = [d \in Dirs |-> None]
    /\ pc = [p \in Procs |-> "idle"]
    /\ ncalls = [p \in Procs |-> 0]
    /\ sock = [s \in Sockets |-> "none"]
    /\ probes = [p \in Procs |-> << >>]
    /\ loc = [p \in Procs |-> None]
    /\ ret = [p \in Procs |-> "none"]
    /\ branch = [p \in Procs |-> "none"]
    /\ errno = [p \in Procs |-> NoError]
    /\ retained = [p \in Procs |-> None]
    /\ atexit = [p \in Procs |-> << >>]
    /\ peer = [s \in Sockets |-> None]
    /\ earlier = [p \in Procs |-> << >>]

NextAddressing == single_instance_addressing

SpecAddressing == InitAddressing /\ [][NextAddressing]_vars

\* read_shell_environment is about to build its command, for every value of
\* opts.shell
InitCommand ==
    /\ read_shell_environment_ans = None
    /\ heap = << >>
    /\ call_order = << >>
    /\ launched = {}
    /\ epc = [t \in Threads |-> "idle"]
    /\ ans = [t \in Threads |-> None]
    /\ result = [t \in Threads |-> None]
    /\ master = [t \in Threads |-> "none"]
    /\ slave = [t \in Threads |-> "none"]
    /\ popen = [t \in Threads |-> "none"]
    /\ child = [t \in Threads |-> "none"]
    /\ status = [t \in Threads |-> NoReturncode]
    /\ returncode = [t \in Threads |-> NoReturncode]
    /\ pty = [t \in Threads |-> << >>]
    /\ raw = [t \in Threads |-> << >>]
    /\ written = [t \in Threads |-> << >>]
    /\ polls = [t \in Threads |-> 0]
    /\ after = [t \in Threads |-> "none"]
    /\ killed = [t \in Threads |-> FALSE]
    /\ log = [t \in Threads |-> {}]
    /\ fn_pc = "called"
    /\ fn_args \in ShellInputs
    /\ fn_result = None
    /\ is_macos = FALSE
    /\ abstract_supported = TRUE
    /\ faults = 0
    /\ abstract_addr = None
    /\ lockfile = [d \in Dirs |-> [exists |-> FALSE, mtime |-> 0]]
    /\ lock_owner = [d \in Dirs |-> None]
    /\ socket_file = [d \in Dirs |-> None]
    /\ pc = [p \in Procs |-> "idle"]
    /\ ncalls = [p \in Procs |-> 0]
    /\ sock = [s \in Sockets |-> "none"]
    /\ probes = [p \in Procs |-> << >>]
    /\ loc = [p \in Procs |-> None]
    /\ ret = [p \in Procs |-> "none"]
    /\ branch = [p \in Procs |-> "none"]
    /\ errno = [p \in Procs |-> NoError]
    /\ retained = [p \in Procs |-> None]
    /\ atexit = [p \in Procs |-> << >>]
    /\ peer = [s \in Sockets |-> None]
    /\ earlier = [p \in Procs |-> << >>]

NextCommand == read_shell_environment_command

SpecCommand == InitCommand /\ [][NextCommand]_vars

\* sanitize_for_bracketed_paste is called on each of the inputs
InitPaste ==
    /\ read_shell_environment_ans = None
    /\ heap = << >>
    /\ call_order = << >>
    /\ launched = {}
    /\ epc = [t \in Threads |-> "idle"]
    /\ ans = [t \in Threads |-> None]
    /\ result = [t \in Threads |-> None]
    /\ master = [t \in Threads |-> "none"]
    /\ slave = [t \in Threads |-> "none"]
    /\ popen = [t \in Threads |-> "none"]
    /\ child = [t \in Threads |-> "none"]
    /\ status = [t \in Threads |-> NoReturncode]
    /\ returncode = [t \in Threads |-> NoReturncode]
    /\ pty = [t \in Threads |-> << >>]
    /\ raw = [t \in Threads |-> << >>]
    /\ written = [t \in Threads |-> << >>]
    /\ polls = [t \in Threads |-> 0]
    /\ after = [t \in Threads |-> "none"]
    /\ killed = [t \in Threads |-> FALSE]
    /\ log = [t \in Threads |-> {}]
    /\ fn_pc = "called"
    /\ fn_args \in PasteInputs
    /\ fn_result = None
    /\ is_macos = FALSE
    /\ abstract_supported = TRUE
    /\ faults = 0
    /\ abstract_addr = None
    /\ lockfile = [d \in Dirs |-> [exists |-> FALSE, mtime |-> 0]]
    /\ lock_owner = [d \in Dirs |-> None]
    /\ socket_file = [d \in Dirs |-> None]
    /\ pc = [p \in Procs |-> "idle"]
    /\ ncalls = [p \in Procs |-> 0]
    /\ sock = [s \in Sockets |-> "none"]
    /\ probes = [p \in Procs |-> << >>]
    /\ loc = [p \in Procs |-> None]
    /\ ret = [p \in Procs |-> "none"]
    /\ branch = [p \in Procs |-> "none"]
    /\ errno = [p \in Procs |-> NoError]
    /\ retained = [p \in Procs |-> None]
    /\ atexit = [p \in Procs |-> << >>]
    /\ peer = [s \in Sockets |-> None]
    /\ earlier = [p \in Procs |-> << >>]

NextPaste ==
    \/ sanitize_for_bracketed_paste_call
    \/ sanitize_for_bracketed_paste_loop

SpecPaste == InitPaste /\ [][NextPaste]_vars

(***************************************************************************)
(* Properties of the single-instance protocol                              *)
(***************************************************************************)
\* the endpoint a process coordinates on: the abstract name, or the socket
\* path in the directory it selected
Address(p) == IF abstract_supported THEN <<"abstract">> ELSE <<"unix", loc[p]>>

\* the process has an endpoint: in the filesystem protocol, a directory
HasAddress(p) == abstract_supported \/ loc[p] # None

\* a live process that holds the Server role: a bound listening socket
IsServer(p) ==
    Alive(p) /\ \E s \in Sockets : owner(s) = p /\ sock[s] = "listening"

\* C1: two processes that call single_instance with the same name (and so
\* coordinate on the same address), and no one else: once both calls have
\* ended, one returned Server (True) and the other Client (False); neither
\* ended in an error.
C1_OneServerOneClient ==
    \A p, q \in Procs :
        ( /\ p # q
          /\ pc[p] = "done" /\ pc[q] = "done"
          /\ Address(p) = Address(q) /\ HasAddress(p)
          /\ \A r \in Procs \ {p, q} : pc[r] = "idle" )
        => {ret[p], ret[q]} = {"True", "False"}

LockHeldByOther(p) ==
    /\ loc[p] # None
    /\ lock_owner[loc[p]] \notin {None, p}
    /\ Alive(lock_owner[loc[p]])

\* C4: while another live process holds the lock, no step of a process in
\* single_instance_unix changes the lockfile or the socket path, and when
\* its call ends it has returned Client (False) with a connected socket.
C4_ClientLeavesLockfile ==
    [][\A p \in Procs :
          ( /\ pc[p] \in {"unix_open", "unix_lockf", "unix_connect"}
            /\ pc'[p] # pc[p]
            /\ LockHeldByOther(p) )
          => /\ lockfile'[loc[p]] = lockfile[loc[p]]
             /\ socket_file' = socket_file
             /\ (pc'[p] = "done" =>
                    ret'[p] = "False" /\ sock'[S(p)] = "connected")]_vars

\* C5: a process unlinks the socket path only as holder of the lock and only
\* when the file there is stale (its socket is closed); the second bind then
\* finds the path free; and the call ends with Server (True), the socket
\* listening and bound to the socket path.
C5_StaleSocketReplaced ==
    \A p \in Procs :
        /\ pc[p] = "unix_unlink" =>
              /\ lock_owner[loc[p]] = p
              /\ socket_file[loc[p]] # None
              /\ sock[socket_file[loc[p]]] = "closed"
        /\ pc[p] = "unix_rebind" =>
              /\ lock_owner[loc[p]] = p
              /\ socket_file[loc[p]] = None
        /\ (branch[p] = "unix_stale" /\ pc[p] = "done") =>
              /\ ret[p] = "True"
              /\ sock[S(p)] = "listening"
              /\ socket_file[loc[p]] = S(p)

\* a call that replaced a stale socket file has returned Server
C5_Witness ==
    \E p \in Procs :
        /\ branch[p] = "unix_stale"
        /\ pc[p] = "done"
        /\ ret[p] = "True"

\* C10: a call that has ended took one of three branches at the abstract
\* bind: bind succeeded, and it returned Server with the socket listening
\* and retained; the address was taken, and it returned Client with the same
\* socket connected to the owner of the abstract address and retained; the
\* namespace is unsupported, and the filesystem protocol produced the result.
C10_AbstractOutcomes ==
    \A p \in Procs :
        pc[p] = "done" =>
            /\ branch[p] = "abs_server" =>
                  /\ ret[p] = "True"
                  /\ sock[S(p)] = "listening"
                  /\ retained[p] = S(p)
                  /\ abstract_addr = S(p)
            /\ branch[p] = "abs_client" =>
                  /\ ret[p] = "False"
                  /\ sock[S(p)] = "connected"
                  /\ retained[p] = S(p)
                  /\ peer[S(p)] # None
            /\ branch[p] \notin {"abs_server", "abs_client"} =>
                  ~abstract_supported

\* the errnos the code handles, per failing call: the abstract namespace is
\* unsupported or the address is in use (abstract bind), the lock is held
\* (lockf), the socket path is in use (first bind of the path)
HandledErrnos(call) ==
    CASE call = "abstract_bind" -> {"ENOENT", "EADDRINUSE"}
      [] call = "lockf" -> {"EAGAIN", "EACCES"}
      [] call = "bind" -> {"EADDRINUSE", "EEXIST"}
      [] OTHER -> {}

\* the call of p met an OSError that is not one of the handled ones
Unhandled(p) ==
    /\ errno[p] # NoError
    /\ errno[p].errno \notin HandledErrnos(errno[p].call)

\* C11: when bind, connect, os.open of the lockfile or lockf fails with an
\* errno other than the handled ones, the call has ended there and the error
\* propagated: no role was returned and no socket retained; after a failure
\* in the abstract tier the filesystem tier was not entered; after a failure
\* in the filesystem tier no candidate after the selected directory was
\* tried.
C11_OtherErrorsPropagate ==
    \A p \in Procs :
        Unhandled(p) =>
            /\ pc[p] \in {"done", "exit_close", "exit_unlink", "exit_final",
                          "dead"}
            /\ ret[p] = "raise"
            /\ retained[p] = None
            /\ sock[S(p)] = "closed"
            /\ errno[p].call \in {"abstract_bind", "connect"}
                  /\ branch[p] \in {"none", "abs_client"}
                  => probes[p] = << >> /\ loc[p] = None
            /\ probes[p] # << >> =>
                  /\ probes[p][Len(probes[p])].dir = loc[p]
                  /\ probes[p][Len(probes[p])].ok

\* a call failed at lockf with an errno that is not handled there, while
\* another process is the Server in the same directory
C11_Witness ==
    \E p, q \in Procs :
        /\ errno[p] = OSError("lockf", "EMFILE")
        /\ ret[p] = "raise"
        /\ ret[q] = "True" /\ pc[q] = "done"
        /\ loc[q] = loc[p]

\* C12: whenever a call has returned a role, the socket that
\* single_instance.socket retains matches it: after Server (True) it is the
\* bound, listening socket of the call; after Client (False) it is the socket
\* of the call, connected to the Server's endpoint.
C12_RetainedSocketMatchesRole ==
    \A p \in Procs :
        pc[p] = "done" =>
            /\ ret[p] = "True" =>
                  /\ retained[p] = S(p)
                  /\ sock[S(p)] = "listening"
            /\ ret[p] = "False" =>
                  /\ retained[p] = S(p)
                  /\ sock[S(p)] = "connected"
                  /\ peer[S(p)] # None

\* C13: within one process the decision is made once: after a first call
\* that returned a role, single_instance.socket stays the socket that call
\* retained, that socket stays open, and every later call that ends returns
\* the role of the first call.
C13_DecisionMadeOnce ==
    \A p \in Procs :
        (earlier[p] # << >> /\ pc[p] \notin {"exit_close", "exit_unlink",
                                             "exit_final", "dead"}) =>
            /\ retained[p] = earlier[p][1].socket
            /\ earlier[p][1].socket # None =>
                  sock[earlier[p][1].socket] \in {"listening", "connected"}
            /\ pc[p] = "done" => ret[p] = earlier[p][1].ret

UnixServer(p) == ret[p] = "True" /\ branch[p] \in {"unix_server", "unix_stale"}

\* what is registered once a call has ended, and what the handlers have done
\* once they have run
ServerCleanupRegistered ==
    \A p \in Procs :
        /\ (pc[p] = "done" /\ ret[p] = "True") =>
              /\ Len(atexit[p]) = 1
              /\ atexit[p][1].s = retained[p]
              /\ atexit[p][1].path = IF UnixServer(p) THEN loc[p] ELSE None
        /\ (pc[p] = "done" /\ ret[p] # "True") => atexit[p] = << >>
        /\ (pc[p] = "exit_final" /\ ret[p] = "True") =>
              /\ sock[retained[p]] = "closed"
              /\ UnixServer(p) => socket_file[loc[p]] # retained[p]

\* a step that removes a socket file is the unlink of a lock holder that
\* found the path in use, or of the exit handler of a filesystem Server
OnlyServersUnlink ==
    \A d \in Dirs :
        (socket_file[d] # None /\ socket_file'[d] = None) =>
            \E p \in Procs :
                /\ pc'[p] # pc[p]
                /\ ret[p] # "False"
                /\ \/ pc[p] = "unix_unlink" /\ lock_owner[d] = p
                   \/ pc[p] = "exit_unlink" /\ UnixServer(p) /\ loc[p] = d

\* no step removes a lockfile
LockfileStays ==
    \A d \in Dirs : lockfile[d].exists => lockfile'[d].exists

FirstAccessibleSelected ==
    \A p \in Procs :
        /\ \A i \in DOMAIN probes[p] :
              /\ probes[p][i].dir = candidates[i]
              /\ probes[p][i].ok => i = Len(probes[p])
        /\ loc[p] # None =>
              /\ probes[p] # << >>
              /\ probes[p][Len(probes[p])] = [dir |-> loc[p], ok |-> TRUE]
        /\ loc[p] = None => \A i \in DOMAIN probes[p] : ~probes[p][i].ok

\* a step that touches the lockfile, the lock or the socket file of a
\* directory, or connects, is a step of a process that selected that
\* directory; and the selection never changes
OnlySelectedDirectoryUsed ==
    /\ \A d \in Dirs :
          ( \/ lockfile'[d] # lockfile[d]
            \/ lock_owner'[d] # lock_owner[d]
            \/ socket_file'[d] # socket_file[d] ) =>
              \E p \in Procs : pc'[p] # pc[p] /\ loc[p] = d
    /\ \A p \in Procs :
          /\ loc[p] # None => loc'[p] = loc[p]
          /\ (pc[p] = "unix_connect" /\ peer'[S(p)] # peer[S(p)]) =>
                peer'[S(p)] = socket_file[loc[p]]

\* C17: in the filesystem protocol only the first accessible candidate
\* directory is ever used: whatever happens there (lock acquired, lock held,
\* or an error), no later candidate is tested, and every open, lock, bind,
\* connect and unlink of the call is on a path in that directory.
C17_OnlyFirstAccessibleUsed ==
    /\ []FirstAccessibleSelected
    /\ [][OnlySelectedDirectoryUsed]_vars

\* a call failed with an error in the first candidate directory, which is
\* accessible, while the second candidate was never tested
C17_Witness ==
    \E p \in Procs :
        /\ pc[p] = "done" /\ ret[p] = "raise"
        /\ probes[p] = <<[dir |-> candidates[1], ok |-> TRUE]>>
        /\ errno[p].call \in {"open", "lockf", "bind", "connect"}

\* the directories a call has tested with os.access, in order
Tested(p) == [i \in DOMAIN probes[p] |-> probes[p][i].dir]

\* the priority of a directory in the order user cache, system cache, temp,
\* home
Priority(d) ==
    CASE d = user_cache_dir -> 1
      [] d = LibraryCaches -> 2
      [] d = tempdir -> 3
      [] d = home -> 4

\* C18 as stated: the candidates are considered in the order user-cache
\* directory, system cache path, temp directory, home directory, and the
\* temp and the home directory are still candidates when the cache
\* directories are not accessible: a call gives up with no directory only
\* after it has tested those two.
C18_TempAndHomeStillCandidates ==
    \A p \in Procs :
        /\ \A i, j \in DOMAIN probes[p] :
              i < j => Priority(Tested(p)[i]) < Priority(Tested(p)[j])
        /\ branch[p] = "unix_nodir" =>
              {tempdir, home} \subseteq {Tested(p)[i] : i \in DOMAIN probes[p]}

\* the candidates of each platform
PlatformCandidates ==
    IF is_macos THEN <<user_cache_dir, LibraryCaches>> ELSE <<tempdir, home>>

\* C18 as amended: on macOS the candidates are the user-cache directory and
\* then the system cache path, and no others; elsewhere the temp directory
\* and then the home directory, and no others.  A call tests them in that
\* order, selects the first that is accessible, and gives up with no
\* directory when it has tested all of them and none is.
C18_CandidatesPerPlatform ==
    \A p \in Procs :
        /\ Len(probes[p]) <= Len(PlatformCandidates)
        /\ \A i \in DOMAIN probes[p] :
              i <= Len(PlatformCandidates) =>
                  Tested(p)[i] = PlatformCandidates[i]
        /\ loc[p] # None =>
              /\ probes[p] # << >>
              /\ probes[p][Len(probes[p])] = [dir |-> loc[p], ok |-> TRUE]
              /\ \A i \in 1..(Len(probes[p]) - 1) : ~probes[p][i].ok
        /\ branch[p] = "unix_nodir" =>
              /\ Len(probes[p]) = Len(PlatformCandidates)
              /\ \A i \in DOMAIN probes[p] : ~probes[p][i].ok

\* on macOS a call found neither cache directory accessible and gave up,
\* and another selected the system cache path after the user-cache
\* directory was rejected
C18_Witness ==
    \E p, q \in Procs :
        /\ is_macos
        /\ branch[p] = "unix_nodir"
        /\ Tested(p) = <<user_cache_dir, LibraryCaches>>
        /\ loc[q] = LibraryCaches
        /\ Tested(q) = <<user_cache_dir, LibraryCaches>>

(***************************************************************************)
(* Properties of the addressing                                            *)
(***************************************************************************)
\* the directory part and the file-name part of a path
Dirname(path) == SubSeq(path, 1, rindex_from(path, "/", Len(path)) - 1)

Basename(path) ==
    SubSeq(path, rindex_from(path, "/", Len(path)) + 1, Len(path))

\* s without its last n characters, and its last n characters
DropLast(s, n) == SubSeq(s, 1, Len(s) - n)

TakeLast(s, n) == SubSeq(s, Len(s) - n + 1, Len(s))

\* C19: the name is <app>-ipc-<euid>, followed by -<group id> exactly when a
\* non-empty group id is given; the abstract address is NUL followed by the
\* name; the lockfile and the socket file lie in the directory, their names
\* are one stem followed by .lock and by .sock; the stem is the name, with a
\* leading dot exactly when the directory is the home directory.
C19_Addressing ==
    fn_pc = "returned" =>
        LET a == fn_args
            r == fn_result
            base == a.app \o <<"-", "i", "p", "c", "-">> \o str(a.euid)
            given == a.group_id.some /\ Len(a.group_id.value) > 0
            lock == Basename(r.path)
            socket == Basename(r.socket_path)
        IN  /\ given => r.name = base \o <<"-">> \o a.group_id.value
            /\ ~given => r.name = base
            /\ Head(r.addr) = NUL /\ Tail(r.addr) = r.name
            /\ Dirname(r.path) = a.loc
            /\ Dirname(r.socket_path) = a.loc
            /\ TakeLast(lock, 5) = <<".", "l", "o", "c", "k">>
            /\ TakeLast(socket, 5) = <<".", "s", "o", "c", "k">>
            /\ DropLast(lock, 5) = DropLast(socket, 5)
            /\ Head(lock) = "." <=> a.loc = a.home
            /\ DropLast(lock, 5) =
                  (IF a.loc = a.home THEN <<".">> ELSE << >>) \o r.name

\* the addresses were derived for a name with dots (in the application name
\* and in the group id) in a home directory whose path has a dot
C19_Witness ==
    /\ fn_pc = "returned"
    /\ fn_args.app = <<"k", ".", "y">>
    /\ fn_args.group_id = Some(<<"g", ".", "x">>)
    /\ fn_args.loc = <<"/", "h", ".", "d">>
    /\ fn_args.home = fn_args.loc
    /\ Len(fn_result.socket_path) = Len(fn_result.path)

(***************************************************************************)
(* Properties of the command line                                          *)
(***************************************************************************)
LoginFlags == {<<"-l">>, <<"--login">>}

InteractiveFlags == {<<"-i">>, <<"--interactive">>}

\* the number of arguments of a list that are one of the flags
Count(shell, flags) == Cardinality({i \in DOMAIN shell : shell[i] \in flags})

\* the command is the resolved arguments, then -l only if they hold no login
\* flag, then -i only if they hold no interactive flag, then -c env; the
\* child gets a new session and the slave of the pty as its three streams
CommandAsBuilt ==
    LET shell == resolved_shell(fn_args)
        r == fn_result
    IN  /\ r.args =
              shell
              \o (IF Count(shell, LoginFlags) = 0 THEN << <<"-l">> >>
                  ELSE << >>)
              \o (IF Count(shell, InteractiveFlags) = 0 THEN << <<"-i">> >>
                  ELSE << >>)
              \o << <<"-c">>, <<"env">> >>
        /\ r.start_new_session
        /\ r.stdin = "slave" /\ r.stdout = "slave" /\ r.stderr = "slave"

\* C20 as stated: the command is built so, and each flag (login,
\* interactive) occurs exactly once in the final command line.
C20_EachFlagExactlyOnce ==
    fn_pc = "returned" =>
        /\ CommandAsBuilt
        /\ Count(fn_result.args, LoginFlags) = 1
        /\ Count(fn_result.args, InteractiveFlags) = 1

\* C20 as amended: the command is built so; each flag occurs at least once
\* in the final command line, and exactly as often as in the resolved
\* arguments when it occurs there.
C20_EachFlagAtLeastOnce ==
    fn_pc = "returned" =>
        /\ CommandAsBuilt
        /\ \A flags \in {LoginFlags, InteractiveFlags} :
              /\ Count(fn_result.args, flags) >= 1
              /\ Count(resolved_shell(fn_args), flags) >= 1 =>
                    Count(fn_result.args, flags) =
                        Count(resolved_shell(fn_args), flags)

\* the command was built for 'sh --login': only -i was appended
C20_Witness ==
    /\ fn_pc = "returned"
    /\ fn_args = <<"sh", Blank, "--login">>
    /\ fn_result.args = << <<"sh">>, <<"--login">>, <<"-i">>, <<"-c">>,
                           <<"env">> >>

(***************************************************************************)
(* Properties of read_shell_environment                                    *)
(***************************************************************************)
\* C3: across the calls of one process at most one shell is launched, and by
\* the first call; one dict is ever made; and every call that returns,
\* returns that same dict, the cached one.
C3_OneLaunchSameMapping ==
    /\ Cardinality(launched) <= 1
    /\ \A t \in launched : t = call_order[1]
    /\ Len(heap) <= 1
    /\ \A t \in Threads :
          epc[t] = "returned" =>
              /\ result[t] # None
              /\ result[t] = read_shell_environment_ans
              /\ \A u \in Threads :
                    epc[u] = "returned" => result[u] = result[t]

\* every thread has called, the first call launched a shell, and two calls
\* have returned
C3_Witness ==
    /\ Len(call_order) = NumThreads
    /\ launched # {}
    /\ \E t, u \in Threads :
          t # u /\ epc[t] = "returned" /\ epc[u] = "returned"

\* C6: a call whose child had not exited when the poll loop ended at the
\* deadline takes the timeout branch: it kills the child, logs the timeout,
\* leaves the mapping empty whatever it captured, and does not raise.
C6_TimeoutKillsAndReturnsEmpty ==
    \A t \in Threads :
        /\ (epc[t] \in {"drain", "close", "returned"}
              /\ child[t] \in {"running", "killed"}) =>
              /\ after[t] = "timeout"
              /\ killed[t]
              /\ child[t] = "killed"
              /\ TimeoutMessage \in log[t]
              /\ heap[ans[t]] = << >>
              /\ (epc[t] = "returned" => result[t] = ans[t])
        /\ child[t] \in {"running", "killed"} => epc[t] # "raised"

\* a call timed out after capturing output that parses to an entry, and
\* returned the empty mapping
C6_Witness ==
    \E t \in Threads :
        /\ epc[t] = "returned"
        /\ after[t] = "timeout"
        /\ parse_env(<< >>, raw[t]) # << >>
        /\ heap[result[t]] = << >>

\* C14: when the shell child has exited with a non-zero status, a call that
\* has left the branches after the poll loop has logged a diagnostic (the
\* failure one whenever it saw the status) and its mapping is empty, whatever
\* was captured; and that empty mapping is what it returns.
C14_NonZeroExitReturnsEmpty ==
    \A t \in Threads :
        ( /\ epc[t] \in {"close", "returned"}
          /\ child[t] = "exited"
          /\ status[t] # 0 ) =>
            /\ heap[ans[t]] = << >>
            /\ log[t] # {}
            /\ returncode[t] # NoReturncode =>
                  /\ after[t] = "failed"
                  /\ log[t] = {FailedMessage}
            /\ epc[t] = "returned" => result[t] = ans[t]

\* a call saw a non-zero exit after capturing output that parses to an
\* entry, and returned the empty mapping
C14_Witness ==
    \E t \in Threads :
        /\ epc[t] = "returned"
        /\ returncode[t] = 1
        /\ parse_env(<< >>, raw[t]) # << >>
        /\ heap[result[t]] = << >>

\* C16: a call that has started its shell eventually returns, whatever the
\* child and the processes it left behind do: the poll loop ends, and so
\* does the final drain after a zero exit.
C16_CallEventuallyReturns ==
    \A t \in Threads :
        (epc[t] \in {"poll", "after", "drain", "close"}) ~>
            (epc[t] = "returned")

\* C7: a call whose Popen did not find the shell has logged that and returned
\* the empty cached mapping at once: no poll iteration, no child, no wait;
\* and every later call returns that same empty mapping.
C7_ShellNotFoundReturnsAtOnce ==
    \A t \in Threads :
        popen[t] = "FileNotFoundError" =>
            /\ epc[t] = "returned"
            /\ polls[t] = 0
            /\ child[t] = "none"
            /\ returncode[t] = NoReturncode
            /\ NotFoundMessage \in log[t]
            /\ result[t] = read_shell_environment_ans
            /\ heap[result[t]] = << >>
            /\ \A u \in Threads :
                  epc[u] = "returned" => result[u] = result[t]

\* a later call returned the mapping of the call that did not find the shell
C7_Witness ==
    \E t, u \in Threads :
        /\ t # u
        /\ popen[t] = "FileNotFoundError"
        /\ epc[u] = "returned"
        /\ result[u] = result[t]

\* the reference parse: a line contributes key -> value iff it has an '=',
\* and the text before its first '=' and the text after it are not empty
has_entry(line) ==
    \E i \in 1..Len(line) :
        /\ line[i] = EQ
        /\ \A j \in 1..(i - 1) : line[j] # EQ
        /\ 1 < i /\ i < Len(line)

first_eq(line) ==
    CHOOSE i \in 1..Len(line) :
        line[i] = EQ /\ \A j \in 1..(i - 1) : line[j] # EQ

key_of(line) == SubSeq(line, 1, first_eq(line) - 1)

value_of(line) == SubSeq(line, first_eq(line) + 1, Len(line))

\* the mapping of the reference parse: the keys of the contributing lines,
\* each with the value of the last line that contributes it
reference_parse(lines) ==
    LET contributing == {i \in 1..Len(lines) : has_entry(lines[i])}
        last(k) == CHOOSE i \in contributing :
                      /\ key_of(lines[i]) = k
                      /\ \A j \in contributing :
                            key_of(lines[j]) = k => j <= i
    IN  [k \in {key_of(lines[i]) : i \in contributing} |->
            value_of(lines[last(k)])]

\* C8: after a zero exit, the mapping of the call is the reference parse of
\* the lines of the captured output, and nothing else.
C8_MappingIsReferenceParse ==
    \A t \in Threads :
        (after[t] = "parse" /\ epc[t] \in {"close", "returned"}) =>
            heap[ans[t]] = reference_parse(splitlines(decode(raw[t])))

\* a returned mapping whose captured output had a key on two contributing
\* lines with different values
C8_Witness ==
    \E t \in Threads :
        /\ epc[t] = "returned"
        /\ after[t] = "parse"
        /\ LET lines == splitlines(decode(raw[t]))
           IN  \E i, j \in 1..Len(lines) :
                  /\ i < j
                  /\ has_entry(lines[i]) /\ has_entry(lines[j])
                  /\ key_of(lines[i]) = key_of(lines[j])
                  /\ value_of(lines[i]) # value_of(lines[j])
                  /\ heap[result[t]][key_of(lines[j])] = value_of(lines[j])

\* C9: no call of read_shell_environment ends by raising: a call that failed
\* to allocate the pty or to launch the shell has returned an empty mapping
\* and logged a diagnostic.
C9_NeverRaises ==
    \A t \in Threads :
        /\ epc[t] # "raised"
        /\ (epc[t] = "returned" /\ popen[t] \notin {"none", "ok"}) =>
              /\ heap[result[t]] = << >>
              /\ log[t] # {}

\* C21: when a call that allocated a pseudo-terminal pair has ended, by
\* returning or by raising, both descriptors of the pair are closed.
C21_PtyClosedWhenCallEnds ==
    \A t \in Threads :
        (epc[t] \in {"returned", "raised"} /\ master[t] # "none") =>
            /\ master[t] = "closed"
            /\ slave[t] = "closed"

\* C22: when the threads of one process call concurrently, at most one shell
\* is launched, one dict is made, and the calls that have returned all
\* returned that one dict.
C22_ConcurrentCallsLaunchOnce ==
    /\ Cardinality(launched) <= 1
    /\ Len(heap) <= 1
    /\ \A t, u \in Threads :
          (epc[t] = "returned" /\ epc[u] = "returned") =>
              result[t] = result[u]

(***************************************************************************)
(* Properties of the protocol between processes                            *)
(***************************************************************************)
\* C23: a process that has taken the Client branch finds, at the address it
\* is about to connect to, a socket that is bound and listening; and no call
\* ends with an error of connect.
C23_ClientMeetsListeningServer ==
    \A p \in Procs :
        /\ pc[p] = "abs_connect" => Listening(abstract_addr)
        /\ pc[p] = "unix_connect" => Listening(socket_file[loc[p]])
        /\ ret[p] = "raise" => errno[p].call # "connect"

\* a process about to unlink a socket path (line 454, or line 387 for a
\* registered path) holds the lock on the lockfile next to it
UnlinkerHoldsLock ==
    \A p \in Procs :
        /\ pc[p] = "unix_unlink" => lock_owner[loc[p]] = p
        /\ ( /\ pc[p] = "exit_unlink"
              /\ atexit[p] # << >>
              /\ atexit[p][Len(atexit[p])].path # None ) =>
                lock_owner[atexit[p][Len(atexit[p])].path] = p

\* a step that removes or replaces a socket file is a step of the process
\* that holds the lock; and when the file is the socket of a listening
\* Server, that Server is the process
SocketFileChangedByHolder ==
    \A d \in Dirs :
        (socket_file[d] # None /\ socket_file'[d] # socket_file[d]) =>
            \E p \in Procs :
                /\ pc'[p] # pc[p]
                /\ lock_owner[d] = p
                /\ Listening(socket_file[d]) => owner(socket_file[d]) = p

\* C24: in the filesystem protocol every unlink of the socket path, the
\* replacement of a stale socket and the cleanup at exit alike, is done by
\* the process that holds the lock on the lockfile; the socket file of a
\* live Server is never removed or replaced by another process.
C24_UnlinkOnlyByLockHolder ==
    /\ []UnlinkerHoldsLock
    /\ [][SocketFileChangedByHolder]_vars

\* a Server was killed and left its socket file; the next process replaced
\* the stale file, served, and removed its own socket file at exit
C24_Witness ==
    \E p, q \in Procs :
        /\ p # q
        /\ pc[q] = "dead" /\ ret[q] = "True" /\ atexit[q] # << >>
        /\ branch[p] = "unix_stale" /\ ret[p] = "True"
        /\ pc[p] = "exit_final" /\ atexit[p] = << >>
        /\ loc[p] = loc[q]
        /\ socket_file[loc[p]] = None

\* the branches of a call that does not make its caller the Server: the
\* address is in use (line 484), the lock is held (line 442), or no
\* candidate directory was yielded (line 463)
ClientBranches == {"abs_client", "unix_client", "unix_nodir"}

\* C25: the Server role can be taken again: a caller is turned away from the
\* Server role only while another process is alive; when every other
\* process has terminated, cleanly or by a crash, or has not started, the
\* caller is not made a Client.
C25_ServerRoleReacquirable ==
    [][\A p \in Procs :
          (branch[p] \notin ClientBranches /\ branch'[p] \in ClientBranches) =>
              \E q \in Procs : q # p /\ Alive(q)]_vars

(***************************************************************************)
(* Properties of the capture and of the returned mapping                   *)
(***************************************************************************)
\* what the call has captured followed by what is still unread in the
\* pseudo-terminal is what the child wrote: no read loses, repeats or
\* reorders a byte
NothingLostOrRepeated ==
    \A t \in Threads : raw[t] \o pty[t] = written[t]

\* after a zero exit seen by the poll loop nothing is left unread when the
\* parse runs: the bytes parsed are the bytes the child wrote
ParsedIsWritten ==
    \A t \in Threads :
        (after[t] = "parse" /\ epc[t] \in {"close", "returned"}) =>
            /\ pty[t] = << >>
            /\ raw[t] = written[t]
            /\ heap[ans[t]] = parse_env(<< >>, written[t])

\* C26: when the shell child exits with status 0 before the deadline, the
\* bytes that are parsed are all the bytes the child wrote, in order, none
\* lost and none twice, however the output was split between the reads.
C26_AllOutputCaptured ==
    NothingLostOrRepeated /\ ParsedIsWritten

\* a child wrote MaxOut bytes that make an entry and exited with status 0;
\* the call needed two iterations of the poll loop and returned the entry
C26_Witness ==
    \E t \in Threads :
        /\ epc[t] = "returned"
        /\ after[t] = "parse"
        /\ polls[t] = 2
        /\ Len(written[t]) = MaxOut
        /\ heap[result[t]] # << >>

\* C27: the dict a call has returned is never changed afterwards: when a
\* call returns, the mapping already has its final contents.
C27_ReturnedMappingNeverMutated ==
    [][\A t \in Threads :
          epc[t] = "returned" => heap'[result[t]] = heap[result[t]]]_vars

(***************************************************************************)
(* Properties of sanitize_for_bracketed_paste                              *)
(***************************************************************************)
\* the two bracketed-paste end markers: ESC [ 201 ~ and 0x9b 201 ~
EndMarkers == {<<ESC, "[", "2", "0", "1", "~">>, <<CSI, "2", "0", "1", "~">>}

has_marker(text) ==
    \E m \in EndMarkers :
        \E i \in 1..Len(text) :
            /\ i + Len(m) - 1 <= Len(text)
            /\ SubSeq(text, i, i + Len(m) - 1) = m

\* the result has no end marker, sanitizing it again leaves it unchanged,
\* and an input without a marker is returned as it was
ResultIsClean ==
    fn_pc = "returned" =>
        /\ ~has_marker(fn_result)
        /\ pat_sub(fn_result) = fn_result
        /\ ~has_marker(fn_args) => fn_result = fn_args

\* an iteration that does not end the loop makes the text shorter, so the
\* loop ends after at most Len(text) iterations
LoopShortens ==
    (fn_pc = "loop" /\ fn_pc' = "loop") => Len(fn_result') < Len(fn_result)

\* C28: for every byte string sanitize_for_bracketed_paste terminates; its
\* result has no end marker, also none that only appears when the removal
\* of an inner marker joins the bytes around it; the result is a fixed
\* point of the function; an input without a marker is returned unchanged.
C28_SanitizedHasNoEndMarker ==
    /\ []ResultIsClean
    /\ [][LoopShortens]_vars

\* the call has returned for an input in which the removal of the markers
\* found by the first substitution made a new marker, and something is left
C28_Witness ==
    /\ fn_pc = "returned"
    /\ has_marker(pat_sub(fn_args))
    /\ fn_result # << >>

====
